---------------------------- MODULE Spec2Model ----------------------------
(***************************************************************************)
(* Model of the Leboncoin monitoring bot: the rate-limited, retrying       *)
(* fetcher (src/src/scraper.py), the search orchestration over the         *)
(* configured models and the monitoring loop with its shutdown path        *)
(* (src/src/main.py).                                                      *)
(*                                                                         *)
(* Time is counted in whole seconds.  The clock is kept as the time since  *)
(* the instants the code compares it with, each saturating at the largest  *)
(* value it is compared with, which keeps the state space finite over any  *)
(* number of search cycles.  Texts are sequences of one-character strings  *)
(* so that substring tests are computed.                                   *)
(***************************************************************************)
EXTENDS Integers, Sequences, FiniteSets, TLC

(***************************************************************************)
(* Program constants.                                                      *)
(***************************************************************************)
delay_min == 5
delay_max == 10
max_retries == 3
check_interval == 1800
default_max_results == 50
default_high_threshold == 15
default_medium_threshold == 10

\* The pool of client identities (User-Agent strings), by index.
USER_AGENTS == 1..5

(***************************************************************************)
(* Bounds of the model.                                                    *)
(***************************************************************************)
\* longest time, in seconds, one HTTP attempt blocks before its outcome
MaxDur == 1
\* number of identities of the pool USER_AGENTS that the draws explore
MaxAgents == 2
\* longest list of ad records / markup cards in one response body
MaxPage == 2
\* largest result cap given to search_cars in the search specification
MaxCap == 2

None == 0

\* What one HTTP attempt can end with: a status code, or a transport error.
Statuses == {"200", "403", "429", "500"}
Outcomes == Statuses \cup {"timeout", "neterror"}


(***************************************************************************)
(* Texts: sequences of one-character strings.                              *)
(***************************************************************************)
Txt_mazda == <<"m", "a", "z", "d", "a">>
Txt_peugeot == <<"p", "e", "u", "g", "e", "o", "t">>
Txt_citroen == <<"c", "i", "t", "r", "o", "e", "n">>
Txt_citroen_trema == <<"c", "i", "t", "r", "o", "ë", "n">>
Txt_None == <<"N", "o", "n", "e">>
Txt_SansTitre == <<"S", "a", "n", "s", " ", "t", "i", "t", "r", "e">>

UpperChars == <<"A", "B", "C", "D", "E", "F", "G", "H", "I", "J", "K", "L", "M",
                "N", "O", "P", "Q", "R", "S", "T", "U", "V", "W", "X", "Y", "Z">>
LowerChars == <<"a", "b", "c", "d", "e", "f", "g", "h", "i", "j", "k", "l", "m",
                "n", "o", "p", "q", "r", "s", "t", "u", "v", "w", "x", "y", "z">>
DigitChars == {"0", "1", "2", "3", "4", "5", "6", "7", "8", "9"}

\* str.lower() on one character
LowerChar(c) ==
    IF \E k \in 1..Len(UpperChars) : UpperChars[k] = c
    THEN LowerChars[CHOOSE k \in 1..Len(UpperChars) : UpperChars[k] = c]
    ELSE c

\* str.lower()
Lower(t) == [k \in 1..Len(t) |-> LowerChar(t[k])]

\* str.isdigit(): non-empty and digits only
IsDigit(t) == Len(t) > 0 /\ \A k \in 1..Len(t) : t[k] \in DigitChars

\* needle in hay
Contains(hay, needle) ==
    \E k \in 0..(Len(hay) - Len(needle)) :
        \A j \in 1..Len(needle) : hay[k + j] = needle[j]

\* hay.endswith(suffix)
EndsWith(hay, suffix) ==
    /\ Len(suffix) <= Len(hay)
    /\ \A j \in 1..Len(suffix) : hay[Len(hay) - Len(suffix) + j] = suffix[j]

(***************************************************************************)
(* CarListing.matches_search                                               *)
(***************************************************************************)
\* the spellings a requested brand is looked up under
BrandAliases(search_brand_lower) ==
    IF search_brand_lower \in {Txt_citroen, Txt_citroen_trema}
    THEN {Txt_citroen_trema, Txt_citroen}
    ELSE {search_brand_lower}

\* Faulty variant of StrictNumericMatch: the token anywhere in the title.
StrictNumericMatch_Substring(title_lower, sb, sm) == Contains(title_lower, sm)

\* the strict test for a purely numeric model token of at most two digits
StrictNumericMatch(title_lower, sb, sm) ==
    \/ EndsWith(title_lower, <<" ">> \o sm)
    \/ EndsWith(title_lower, sb \o sm)
    \/ \E p \in {sb \o <<" ">> \o sm, sb \o sm \o <<" ">>,
                 sb \o sm \o <<",">>, <<" ">> \o sm \o <<" ">>} :
          Contains(title_lower, p)

\* the test for every other model token
ModelPatternMatch(title_lower, model_lower, sm) ==
    \E p \in {sm, <<" ">> \o sm \o <<" ">>, <<" ">> \o sm \o <<",">>,
              <<" ">> \o sm \o <<".">>} :
        Contains(title_lower, p) \/ Contains(model_lower, p)

\* listing.matches_search(search_brand, search_model)
matches_search(listing, search_brand, search_model) ==
    LET title_lower == Lower(listing.title)
        brand_lower == Lower(listing.brand)
        model_lower == Lower(listing.model)
        sb == Lower(search_brand)
        sm == Lower(search_model)
        brand_match == \E a \in BrandAliases(sb) :
                           Contains(brand_lower, a) \/ Contains(title_lower, a)
    IN  IF ~brand_match THEN FALSE
        ELSE IF search_model = <<>> THEN TRUE
        ELSE IF model_lower # <<>> /\ Contains(model_lower, sm) THEN TRUE
        ELSE IF IsDigit(sm) /\ Len(sm) <= 2
             THEN StrictNumericMatch(title_lower, sb, sm)
        ELSE ModelPatternMatch(title_lower, model_lower, sm)

(***************************************************************************)
(* Response bodies and extraction.                                         *)
(*                                                                         *)
(* A body is [json, ads, cards]: json tells what the __NEXT_DATA__ script  *)
(* holds ("absent", "malformed": not JSON, "nullpath": JSON with a null on *)
(* the path props/pageProps/searchData/ads, "adsscalar": JSON whose ads is *)
(* a number, "adsobject": JSON whose ads is an object, "ok": JSON whose    *)
(* ads is a list), ads the items of that list and cards the anchor         *)
(* elements of the markup.                                                 *)
(***************************************************************************)
\* an absent key of a JSON object, and a JSON null
NoKey == << "<no key>" >>
Null == << "<null>" >>

\* str(ad.get("list_id", ""))
ListIdText(raw) ==
    IF raw = NoKey THEN <<>>
    ELSE IF raw = Null THEN Txt_None
    ELSE raw

\* a CarListing
CarListing(listing_id, title, brand, model) ==
    [listing_id |-> listing_id, title |-> title, brand |-> brand, model |-> model]

\* an item of the ads list that is no JSON object (a string, a number)
ScalarAd == [scalar |-> TRUE]

\* _parse_ad_json: a sequence of zero or one listing
\* (attributes with a false value are left out of the attribute dict; on an
\* item that is no object ad.get raises inside the try block: None)
_parse_ad_json(ad, brand, model) ==
    IF ad = ScalarAd THEN <<>> ELSE
    LET listing_id == ListIdText(ad.list_id)
        actual_brand == IF ad.brand \in {NoKey, Null} \/ ad.brand = <<>>
                        THEN brand ELSE ad.brand
        actual_model == IF ad.model \in {NoKey, Null} \/ ad.model = <<>>
                        THEN model ELSE ad.model
        title == IF ad.subject = NoKey THEN Txt_SansTitre ELSE ad.subject
    IN  IF listing_id = <<>> THEN <<>>
        ELSE << CarListing(listing_id, title, actual_brand, actual_model) >>

\* _parse_html_fallback on one card: zero or one listing
ParseCard(card, brand, model) ==
    IF card.href_id = <<>> THEN <<>>
    ELSE << CarListing(card.href_id, card.title, brand, model) >>

RECURSIVE ParseCards(_, _, _)
\* for card in ad_cards: the listings of the cards, in order
ParseCards(cards, brand, model) ==
    IF cards = <<>> THEN <<>>
    ELSE ParseCard(Head(cards), brand, model) \o ParseCards(Tail(cards), brand, model)

_parse_html_fallback(body, brand, model) == ParseCards(body.cards, brand, model)

RECURSIVE ParseAds(_, _, _)
\* for ad in ads: the listings of the ad records, in order
ParseAds(ads, brand, model) ==
    IF ads = <<>> THEN <<>>
    ELSE _parse_ad_json(Head(ads), brand, model) \o ParseAds(Tail(ads), brand, model)

\* whether _parse_search_results raises: only JSONDecodeError is caught, so
\* None.get(...) and iterating over a number go up to the caller
ParseRaises(body) == body.json \in {"nullpath", "adsscalar"}

\* the listings of the structured-data strategy, where it does not raise
\* (the keys of an ads object are strings: each is dropped by _parse_ad_json)
StructuredCandidates(body, brand, model) ==
    IF body.json = "ok" THEN ParseAds(body.ads, brand, model) ELSE <<>>

\* Faulty variant of FallbackRuns: the markup is parsed for every page.
FallbackRuns_Always(listings) == TRUE

\* if not listings
FallbackRuns(listings) == listings = <<>>

\* _parse_search_results, where it does not raise
_parse_search_results(body, brand, model) ==
    LET listings == StructuredCandidates(body, brand, model)
    IN  IF FallbackRuns(listings) THEN _parse_html_fallback(body, brand, model)
        ELSE listings

RECURSIVE SelectMatching(_, _, _)
\* [l for l in listings if l.matches_search(brand, model)]
SelectMatching(listings, brand, model) ==
    IF listings = <<>> THEN <<>>
    ELSE (IF matches_search(Head(listings), brand, model)
          THEN << Head(listings) >> ELSE <<>>)
         \o SelectMatching(Tail(listings), brand, model)

\* seq[:n] for n >= 0
Take(seq, n) == SubSeq(seq, 1, IF n < Len(seq) THEN n ELSE Len(seq))

\* Faulty variant of FilterAndCap: the cap is applied before the filter.
FilterAndCap_CapFirst(listings, brand, model, max_results) ==
    SelectMatching(Take(listings, max_results), brand, model)

\* search_cars after extraction: filter, then cap
FilterAndCap(listings, brand, model, max_results) ==
    Take(SelectMatching(listings, brand, model), max_results)

(***************************************************************************)
(* The inputs explored: titles, ad records, markup cards, bodies and the   *)
(* configured models.                                                      *)
(***************************************************************************)
Title_Mazda_2 == <<"M", "a", "z", "d", "a", " ", "2">>
Title_Mazda2 == <<"M", "a", "z", "d", "a", "2">>
Title_Peugeot_2008 == <<"P", "e", "u", "g", "e", "o", "t", " ", "2", "0", "0", "8">>
Title_Peugeot_206 == <<"P", "e", "u", "g", "e", "o", "t", " ", "2", "0", "6">>

Ad(list_id, subject, brand, model) ==
    [list_id |-> list_id, subject |-> subject, brand |-> brand, model |-> model]

AdPool ==
    { Ad(<<"1", "1">>, Title_Mazda_2, <<"M", "a", "z", "d", "a">>, <<"2">>),
      Ad(<<"1", "2">>, Title_Peugeot_2008, NoKey, NoKey),
      Ad(<<"1", "3">>, Title_Peugeot_206, <<"P", "e", "u", "g", "e", "o", "t">>,
         <<"2", "0", "6">>),
      Ad(<<"1", "4">>, Title_Mazda2, NoKey, NoKey),
      Ad(NoKey, Title_Mazda_2, NoKey, NoKey),
      Ad(Null, NoKey, NoKey, NoKey),
      Ad(<<>>, Title_Mazda2, NoKey, NoKey),
      ScalarAd }

Card(href_id, title) == [href_id |-> href_id, title |-> title]

CardPool ==
    { Card(<<"2", "1">>, Title_Mazda2),
      Card(<<>>, Title_Mazda_2),
      Card(<<"2", "2">>, Title_Peugeot_2008) }

\* the sequences over S of length at most n
SeqsUpTo(S, n) == UNION { [1..k -> S] : k \in 0..n }

Body(json, ads, cards) == [json |-> json, ads |-> ads, cards |-> cards]

\* the bodies with at most n ad records and at most m cards
Bodies(n, m) ==
    { Body("ok", ads, cards) : ads \in SeqsUpTo(AdPool, n), cards \in SeqsUpTo(CardPool, m) }
    \cup
    { Body(j, <<>>, cards) : j \in {"absent", "malformed", "nullpath", "adsscalar",
                                    "adsobject"},
                             cards \in SeqsUpTo(CardPool, m) }

\* the pages of the search specification
SearchBodies == Bodies(MaxPage, 1)

\* the pages of the cycle specification: one with a listing that matches its
\* search, one without a listing, one that is not JSON and has a card, and
\* one whose JSON makes extraction raise
CycleBodies ==
    { Body("ok", << Ad(<<"1", "1">>, Title_Mazda_2, <<"M", "a", "z", "d", "a">>, <<"2">>) >>, <<>>),
      Body("ok", << Ad(<<"1", "3">>, Title_Peugeot_206, NoKey, NoKey) >>, <<>>),
      Body("absent", <<>>, <<>>),
      Body("malformed", <<>>, << Card(<<"2", "1">>, Title_Mazda2) >>),
      Body("nullpath", <<>>, <<>>) }

ModelConfig(brand, model) == [brand |-> brand, model |-> model]

\* criteria.yaml "models": the searches of one cycle (one entry has no brand)
ModelConfigs ==
    << ModelConfig(Txt_mazda, <<"2">>),
       ModelConfig(<<>>, <<>>),
       ModelConfig(Txt_peugeot, <<"2", "0", "6">>) >>

\* the searches of the search specification: brand, model
SearchRequests ==
    { ModelConfig(Txt_mazda, <<"2">>),
      ModelConfig(Txt_peugeot, <<"2", "0", "6">>),
      ModelConfig(<<"M", "a", "z", "d", "a">>, <<>>) }

(***************************************************************************)
(* State.                                                                  *)
(***************************************************************************)
VARIABLES
    _running,            \* LeboncoinBot._running
    _shutdown_event,     \* LeboncoinBot._shutdown_event is set
    task,                \* the monitoring task: "running", "cancelled", "done"
    cleaned,             \* _cleanup has run
    pc,                  \* where the monitoring loop and its search thread are
    cycle_time,          \* datetime.now() - start_time of the current cycle
    i,                   \* _search_all_models: index of the current model
    all_listings,        \* _search_all_models: all_listings
    since_last_request,  \* time.time() - LeboncoinScraper._last_request_time
    _client,             \* LeboncoinScraper._client: None or a client
    clients,             \* the client objects in use: id -> [ua, closed]
    client,              \* _make_request: the local variable client
    attempt,             \* _make_request: the loop variable attempt
    delay,               \* _respect_rate_limit: the delay drawn
    drew,                \* history: the current fetch call built a client
    sent,                \* history: the attempts of the current fetch call
    sleeps,              \* history: the backoff sleeps of the current fetch call
    fetchResult,         \* history: how the current fetch call ended
    since_request_end,   \* history: time since the last outbound request ended
    afterSignal,         \* history: attempts and fetches started after shutdown()
    searchLog,           \* history: the searches of the current cycle
    s_in,                \* search specification: the arguments of search_cars
    s_out,               \* search specification: what search_cars returned
    m_in,                \* match specification: a listing and a request
    m_out,               \* match specification: what matches_search returned
    e_in,                \* evaluate specification: the arguments of evaluate
    e_out,               \* evaluate specification: what evaluate returned
    car_filter,          \* CarFilter: high_threshold, medium_threshold
    db_config,           \* Database: the value stored under "high_threshold"
    results,             \* history: the ScoreResults evaluate has returned
    reply,               \* history: the last /sethighscore command and how it ended
    startup,             \* history: the starts of the bot, what the last one restored
    is_monitoring,       \* TelegramBot._is_monitoring
    run_pc,              \* where LeboncoinBot.run is
    monitoring_task,     \* LeboncoinBot._monitoring_task: None or a task id
    tasks,               \* the _monitoring_loop tasks: id -> [alive, pc, todo, current]
    table,               \* the listings table: id -> [stored, excluded, notified, old]
    sink_log             \* history: per listing, the notifications delivered and failed

clockVars == << cycle_time, since_last_request, since_request_end >>
fetchVars == << _client, clients, client, attempt, delay, drew, sent, sleeps,
               fetchResult >>
loopVars == << _running, _shutdown_event, task, cleaned >>
searchVars == << s_in, s_out >>
pureVars == << m_in, m_out, e_in, e_out >>
filterVars == << car_filter, db_config, results, reply, startup >>
botVars == << is_monitoring, run_pc, monitoring_task, tasks, table, sink_log >>
restVars == << pc, i, all_listings, afterSignal, searchLog, clockVars, fetchVars,
              loopVars, searchVars, pureVars, filterVars >>
vars == << pc, i, all_listings, afterSignal, searchLog,
           clockVars, fetchVars, loopVars, searchVars, pureVars, filterVars,
           botVars >>

\* the ids of the _monitoring_loop tasks a process can come to create
TaskIds == {1, 2}

\* no task under this id
NoTask == [alive |-> FALSE, pc |-> "none", todo |-> <<>>, current |-> 0]

\* the listing ids the searches return
BotIds == {1, 2}

\* no row under this listing id
NoRow == [stored |-> FALSE, excluded |-> FALSE, notified |-> FALSE, old |-> FALSE]

\* before run(): no task, an empty table (Database._init_db), nothing sent
InitBot ==
    /\ is_monitoring = FALSE
    /\ run_pc = "off"
    /\ monitoring_task = None
    /\ tasks = [t \in TaskIds |-> NoTask]
    /\ table = [id \in BotIds |-> NoRow]
    /\ sink_log = [id \in BotIds |-> [delivered |-> 0, failed |-> FALSE]]

NoSearch == [used |-> FALSE]

\* no clock is compared with more than delay_max, but cycle_time
Horizon == delay_max

Min(a, b) == IF a < b THEN a ELSE b

\* t seconds pass
Tick(t) ==
    /\ cycle_time' = Min(cycle_time + t, check_interval)
    /\ since_last_request' = Min(since_last_request + t, Horizon)
    /\ since_request_end' = Min(since_request_end + t, Horizon)

InitLoop ==
    /\ _running = TRUE          \* run()
    /\ _shutdown_event = FALSE
    /\ task = "running"         \* run(): monitoring was active, the task is created
    /\ cleaned = FALSE
    /\ pc = "loop"
    /\ cycle_time = 0
    /\ i = 0
    /\ all_listings = <<>>
    /\ since_last_request = Horizon   \* _last_request_time = 0: long ago
    /\ _client = None
    /\ clients = << >>
    /\ client = None
    /\ attempt = 0
    /\ delay = 0
    /\ drew = FALSE
    /\ sent = <<>>
    /\ sleeps = <<>>
    /\ fetchResult = "none"
    /\ since_request_end = Horizon    \* no request yet
    /\ afterSignal = [attempts |-> FALSE, fetches |-> FALSE]
    /\ searchLog = <<>>

\* no pure function has been applied
InitPure ==
    /\ m_in = NoSearch
    /\ m_out = NoSearch
    /\ e_in = NoSearch
    /\ e_out = NoSearch

\* no value stored under a key of the bot's configuration table
NoConfig == << "<no row>" >>

\* exclusions.yaml, blacklist_keywords: the categories in file order
BlacklistKeywords ==
    << [category |-> "etat", keywords |-> << <<"p", "a", "n", "n", "e">>, <<"é", "p", "a", "v", "e">> >>],
       [category |-> "suspicious", keywords |-> << <<"s", "a", "n", "s", " ", "g", "a", "r", "a", "n", "t", "i", "e">> >>] >>

\* exclusions.yaml, brand_exclusions: the rules of the brands that have some
BrandExclusions ==
    << [brand |-> <<"p", "e", "u", "g", "e", "o", "t">>, engines |-> << <<"V", "T", "i">> >>, transmissions |-> <<>>,
        require_manual |-> FALSE, accepted_engines |-> <<>>,
        reason |-> <<"c", "h", "a", "î", "n", "e", " ", "f", "r", "a", "g", "i", "l", "e">>],
       [brand |-> <<"h", "o", "n", "d", "a">>, engines |-> << <<"I", "M", "A">> >>, transmissions |-> << <<"C", "V", "T">> >>,
        require_manual |-> TRUE, accepted_engines |-> <<>>,
        reason |-> <<"C", "V", "T", " ", "f", "r", "a", "g", "i", "l", "e">>],
       [brand |-> <<"s", "e", "a", "t">>, engines |-> <<>>, transmissions |-> <<>>,
        require_manual |-> FALSE, accepted_engines |-> << <<"1", ".", "4", " ", "1", "6", "v">> >>,
        reason |-> <<"T", "S", "I", " ", "e", "x", "c", "l", "u">>] >>

\* exclusions.yaml, positive_keywords.maintenance
MaintenanceKeywords == << <<"d", "i", "s", "t", "r", "i", "b", "u", "t", "i", "o", "n", " ", "f", "a", "i", "t", "e">>, <<"c", "h", "a", "î", "n", "e">>, <<"e", "n", "t", "r", "e", "t", "i", "e", "n", " ", "s", "u", "i", "v", "i">> >>

\* exclusions.yaml as a mapping: the document the bot is configured with
Exclusions ==
    [blacklist_keywords |-> BlacklistKeywords,
     brand_exclusions |-> BrandExclusions,
     positive_keywords |-> [maintenance |-> MaintenanceKeywords]]

\* {}: every .get of the filter falls back on its empty default
NoExclusions ==
    [blacklist_keywords |-> <<>>,
     brand_exclusions |-> <<>>,
     positive_keywords |-> [maintenance |-> <<>>]]

\* the states of a rule file on disk: present with a mapping in it, present
\* and empty, not there, not parseable as YAML
RuleFile(state, content) == [state |-> state, content |-> content]

\* Faulty variant of _load_yaml: a file that cannot be read yields the
\* configured rules.
_load_yaml_Configured(file) == Exclusions

\* CarFilter._load_yaml: the mapping of the file, {} when the file is empty
\* (safe_load gives None), is not found or is not YAML
_load_yaml(file) ==
    IF file.state = "present" THEN file.content ELSE NoExclusions

\* CarFilter.__init__: criteria.yaml is not part of the model, so the
\* thresholds are the ones the code falls back on
CarFilter(exclusions_file) ==
    [high_threshold |-> default_high_threshold,
     medium_threshold |-> default_medium_threshold,
     exclusions |-> _load_yaml(exclusions_file)]

\* CarFilter.__init__ with the default thresholds, an empty configuration
\* table, the first start of the bot and no evaluation yet
InitFilter ==
    /\ car_filter = CarFilter(RuleFile("present", Exclusions))
    /\ db_config = NoConfig
    /\ results = <<>>
    /\ reply = [n |-> 0, args |-> <<>>, outcome |-> "none"]
    /\ startup = [n |-> 1, restored |-> NoConfig]

Init ==
    /\ InitLoop
    /\ InitBot
    /\ s_in = NoSearch
    /\ s_out = NoSearch
    /\ InitPure
    /\ InitFilter

\* the history of a fetch call is dropped when the next search begins
ForgetFetch ==
    /\ client' = None
    /\ attempt' = 0
    /\ delay' = 0
    /\ drew' = FALSE
    /\ sent' = <<>>
    /\ sleeps' = <<>>
    /\ fetchResult' = "none"

(***************************************************************************)
(* LeboncoinScraper._make_request, step by step.                           *)
(***************************************************************************)
\* an entry of searchLog
Searched(idx, outcome, extracted, returned) ==
    [idx |-> idx, outcome |-> outcome, extracted |-> extracted, returned |-> returned]

\* Faulty variant of NextModelIndex: a search that fails or raises ends the cycle.
NextModelIndex_Abort(idx, outcome) ==
    IF outcome = "ok" THEN idx + 1 ELSE Len(ModelConfigs) + 1

\* _search_all_models: the model tried after model idx, whose search returned
\* a list or raised (the except clause is inside the for loop)
NextModelIndex(idx, outcome) == idx + 1

\* search_cars has ended for model i: with a list (outcome "ok" or "failed")
\* or with an exception that _search_all_models catches ("raised")
EndSearch(outcome, extracted, returned) ==
    /\ searchLog' = Append(searchLog, Searched(i, outcome, extracted, returned))
    /\ all_listings' = IF outcome = "raised" THEN all_listings
                       ELSE all_listings \o returned
    /\ i' = NextModelIndex(i, outcome)
    /\ pc' = "models"

\* _respect_rate_limit; delays: the values random.uniform may return
RespectRateLimit(delays) ==
    /\ pc = "rate"
    /\ \E d \in delays :
          LET elapsed == since_last_request
              sleep_time == IF elapsed < d THEN d - elapsed ELSE 0
          IN  /\ delay' = d
              /\ cycle_time' = Min(cycle_time + sleep_time, check_interval)
              /\ since_request_end' = Min(since_request_end + sleep_time, Horizon)
    /\ since_last_request' = 0
    /\ pc' = "client"
    /\ fetchResult' = "pending"
    /\ afterSignal' = IF _shutdown_event
                      THEN [afterSignal EXCEPT !.fetches = TRUE] ELSE afterSignal
    /\ UNCHANGED << i, all_listings, searchLog, _client, clients, client, attempt,
                    drew, sent, sleeps, loopVars, searchVars, pureVars,
                    filterVars, botVars >>

\* Faulty variant of NeedNewClient: a client is built for every fetch call.
NeedNewClient_Always(current) == TRUE

\* _get_client: a client is built only when there is none
NeedNewClient(current) == current = None

\* Faulty variant of AttemptInRange: one attempt too many.
AttemptInRange_OneMore(a) == a <= max_retries

\* for attempt in range(self.max_retries)
AttemptInRange(a) == a < max_retries

\* the for loop moves on from attempt a: the next attempt, or return None
AdvanceLoop(a) ==
    /\ attempt' = a + 1
    /\ IF AttemptInRange(a + 1)
       THEN /\ pc' = "send"
            /\ UNCHANGED << i, all_listings, searchLog, fetchResult >>
       ELSE /\ fetchResult' = "failure"
            /\ EndSearch("failed", FALSE, <<>>)

\* an id for a new client object: one that no object in use has
FreshId == CHOOSE c \in {1, 2} : c \notin DOMAIN clients

\* client = self._get_client(), then the loop is entered
GetClient(agents) ==
    /\ pc = "client"
    /\ IF NeedNewClient(_client)
       THEN \E ua \in agents :
               \* httpx.Client(headers=self._get_headers()); the client this
               \* replaces is referenced by nothing any more
               /\ clients' = [c \in {FreshId} |-> [ua |-> ua, closed |-> FALSE]]
               /\ _client' = FreshId
       ELSE UNCHANGED << _client, clients >>
    /\ drew' = NeedNewClient(_client)
    /\ client' = _client'
    /\ AdvanceLoop(-1)
    /\ UNCHANGED << afterSignal, clockVars, delay, sent, sleeps, loopVars,
                    searchVars, pureVars,
                    filterVars, botVars >>

\* client.get(url): the request goes out, unless the client has been closed,
\* in which case httpx raises RuntimeError, which _make_request does not catch
SendRequest ==
    /\ pc = "send"
    /\ IF clients[client].closed
       THEN /\ fetchResult' = "raised"
            /\ EndSearch("raised", FALSE, <<>>)
            /\ UNCHANGED << sent, afterSignal >>
       ELSE /\ sent' = Append(sent, [client |-> client, status |-> "in flight"])
            /\ afterSignal' = IF _shutdown_event
                              THEN [afterSignal EXCEPT !.attempts = TRUE]
                              ELSE afterSignal
            /\ pc' = "inflight"
            /\ UNCHANGED << i, all_listings, searchLog, fetchResult >>
    /\ UNCHANGED << clockVars, _client, clients, client, attempt, delay, drew,
                    sleeps, loopVars, searchVars, pureVars,
                    filterVars, botVars >>

\* Faulty variant of IsSuccess: no status ends the loop.
IsSuccess_Never(status) == FALSE

\* if response.status_code == 200: return response
IsSuccess(status) == status = "200"

\* Faulty variant of ClientAfter: the client is dropped on 429 as well.
ClientAfter_429(outcome, current) ==
    IF outcome \in {"403", "429"} THEN None ELSE current

\* self._client after an attempt that did not succeed
ClientAfter(outcome, current) == IF outcome = "403" THEN None ELSE current

\* Faulty variant of BackoffDue: a sleep follows the last attempt too.
BackoffDue_Always(a) == TRUE

\* if attempt < self.max_retries - 1
BackoffDue(a) == a < max_retries - 1

\* Faulty variant of BackoffChoices: the exponent is one too large.
BackoffChoices_Shifted(a) == (2 ^ (a + 1))..(2 ^ (a + 2))

\* (2**attempt) * random.uniform(1, 2), in whole seconds
BackoffChoices(a) == (2 ^ a)..(2 ^ (a + 1))

\* the attempt in flight ends after d seconds with outcome o
ReceiveResponse(outcomes, durations) ==
    /\ pc = "inflight"
    /\ \E o \in outcomes, d \in durations :
          /\ cycle_time' = Min(cycle_time + d, check_interval)
          /\ since_last_request' = Min(since_last_request + d, Horizon)
          /\ sent' = [sent EXCEPT ![Len(sent)].status = o]
          /\ IF IsSuccess(o)
             THEN /\ fetchResult' = "response"
                  /\ pc' = "parse"
                  /\ UNCHANGED << _client, attempt, i, all_listings, searchLog >>
             ELSE /\ _client' = ClientAfter(o, _client)
                  /\ IF BackoffDue(attempt)
                     THEN /\ pc' = "backoff"
                          /\ UNCHANGED << attempt, i, all_listings, searchLog,
                                          fetchResult >>
                     ELSE AdvanceLoop(attempt)
    /\ since_request_end' = 0
    /\ UNCHANGED << afterSignal, clients, client, delay, drew, sleeps, loopVars,
                    searchVars, pureVars,
                    filterVars, botVars >>

\* time.sleep(backoff)
Backoff ==
    /\ pc = "backoff"
    /\ \E b \in BackoffChoices(attempt) :
          /\ Tick(b)
          /\ sleeps' = Append(sleeps, [attempt |-> attempt, seconds |-> b])
    /\ AdvanceLoop(attempt)
    /\ UNCHANGED << afterSignal, _client, clients, client, delay, drew, sent,
                    loopVars, searchVars, pureVars,
                    filterVars, botVars >>

(***************************************************************************)
(* LeboncoinScraper.search_cars and LeboncoinBot._search_all_models.       *)
(***************************************************************************)
\* the for loop reaches a model with a brand: search_cars calls _make_request
StartSearch ==
    /\ pc = "models"
    /\ i <= Len(ModelConfigs)
    /\ ModelConfigs[i].brand # <<>>
    /\ pc' = "rate"
    /\ ForgetFetch
    /\ UNCHANGED << i, all_listings, afterSignal, searchLog, clockVars, _client,
                    clients, loopVars, searchVars, pureVars,
                    filterVars, botVars >>

\* if not brand: continue
SkipModel ==
    /\ pc = "models"
    /\ i <= Len(ModelConfigs)
    /\ ModelConfigs[i].brand = <<>>
    /\ i' = i + 1
    /\ UNCHANGED << pc, all_listings, afterSignal, searchLog, clockVars,
                    fetchVars, loopVars, searchVars, pureVars,
                    filterVars, botVars >>

\* search_cars once _make_request returned a response: extraction, the
\* correspondence filter and the cap, or the exception extraction raises
ParseAndFilter(bodies) ==
    /\ pc = "parse"
    /\ \E body \in bodies :
          LET brand == ModelConfigs[i].brand
              model == ModelConfigs[i].model
          IN  IF ParseRaises(body)
              THEN EndSearch("raised", TRUE, <<>>)
              ELSE EndSearch("ok", TRUE,
                             FilterAndCap(_parse_search_results(body, brand, model),
                                          brand, model, default_max_results))
    /\ UNCHANGED << afterSignal, clockVars, fetchVars, loopVars, searchVars, pureVars,
                    filterVars, botVars >>

(***************************************************************************)
(* LeboncoinBot._monitoring_loop, shutdown and _cleanup.                   *)
(***************************************************************************)
\* while self._running: a cycle starts; _search_all_models runs in a thread
BeginCycle ==
    /\ pc = "loop"
    /\ _running
    /\ cycle_time' = 0
    /\ i' = 1
    /\ all_listings' = <<>>
    /\ searchLog' = <<>>
    /\ pc' = "models"
    /\ UNCHANGED << afterSignal, since_last_request, since_request_end,
                    fetchVars, loopVars, searchVars, pureVars,
                    filterVars, botVars >>

\* while self._running: the flag is down, the loop ends
LoopExit ==
    /\ pc = "loop"
    /\ ~_running
    /\ pc' = "ended"
    /\ task' = IF task = "running" THEN "done" ELSE task
    /\ UNCHANGED << i, all_listings, afterSignal, searchLog, clockVars, fetchVars,
                    _running, _shutdown_event, cleaned, searchVars, pureVars,
                    filterVars, botVars >>

\* _search_all_models returns; unless the task was cancelled meanwhile, the
\* loop goes on to wait for the next cycle
EndCycle ==
    /\ pc = "models"
    /\ i > Len(ModelConfigs)
    /\ pc' = IF task = "cancelled" THEN "ended" ELSE "wait"
    /\ ForgetFetch
    /\ UNCHANGED << i, all_listings, afterSignal, searchLog, clockVars, _client,
                    clients, loopVars, searchVars, pureVars,
                    filterVars, botVars >>

\* wait_for(self._shutdown_event.wait(), timeout=wait_time) times out
WaitTimeout ==
    /\ pc = "wait"
    /\ ~_shutdown_event
    /\ Tick(check_interval - cycle_time)
    /\ pc' = "loop"
    /\ UNCHANGED << i, all_listings, afterSignal, searchLog, fetchVars, loopVars,
                    searchVars, pureVars,
                    filterVars, botVars >>

\* wait_for returns because the event is set: break
WaitShutdown ==
    /\ pc = "wait"
    /\ _shutdown_event
    /\ pc' = "ended"
    /\ task' = IF task = "running" THEN "done" ELSE task
    /\ UNCHANGED << i, all_listings, afterSignal, searchLog, clockVars, fetchVars,
                    _running, _shutdown_event, cleaned, searchVars, pureVars,
                    filterVars, botVars >>

\* shutdown(), called by the signal handler
Shutdown ==
    /\ ~_shutdown_event
    /\ _running' = FALSE
    /\ _shutdown_event' = TRUE
    /\ UNCHANGED << pc, i, all_listings, afterSignal, searchLog, clockVars,
                    fetchVars, task, cleaned, searchVars, pureVars,
                    filterVars, botVars >>

\* _cleanup, run by run() once the event is set: the task is cancelled (the
\* thread of _search_all_models runs on) and scraper.close() closes the client
Cleanup ==
    /\ _shutdown_event
    /\ ~cleaned
    /\ cleaned' = TRUE
    /\ task' = IF task = "running" THEN "cancelled" ELSE task
    /\ pc' = IF task = "running" /\ pc \in {"loop", "wait"} THEN "ended" ELSE pc
    /\ IF _client # None
       THEN /\ clients' = [clients EXCEPT ![_client].closed = TRUE]
            /\ _client' = None
       ELSE UNCHANGED << _client, clients >>
    /\ UNCHANGED << i, all_listings, afterSignal, searchLog, clockVars, client,
                    attempt, delay, drew, sent, sleeps, fetchResult, _running,
                    _shutdown_event, searchVars, pureVars,
                    filterVars, botVars >>

\* the steps of the monitoring loop and its search thread
Worker(delays, agents, outcomes, durations, bodies) ==
    \/ BeginCycle
    \/ StartSearch
    \/ SkipModel
    \/ RespectRateLimit(delays)
    \/ GetClient(agents)
    \/ SendRequest
    \/ ReceiveResponse(outcomes, durations)
    \/ Backoff
    \/ ParseAndFilter(bodies)
    \/ EndCycle
    \/ WaitTimeout

\* a page without a listing
EmptyBody == Body("absent", <<>>, <<>>)

(***************************************************************************)
(* Spec: the fetcher under every outcome, duration, delay and identity     *)
(* draw, with no shutdown and pages without listings.                      *)
(***************************************************************************)
Next ==
    Worker(delay_min..delay_max, 1..MaxAgents, Outcomes, 0..MaxDur, {EmptyBody})

Spec == Init /\ [][Next]_vars

(***************************************************************************)
(* SpecCycle: the search cycle with its pages and the shutdown path, with  *)
(* requests that take no time and end with 200, 403 or a timeout.          *)
(***************************************************************************)
NextCycle ==
    \/ Worker({delay_min}, {1}, {"200", "403", "timeout"}, {0}, CycleBodies)
    \/ WaitShutdown
    \/ LoopExit
    \/ Shutdown
    \/ Cleanup

SpecCycle == Init /\ [][NextCycle]_vars

(***************************************************************************)
(* SpecSearch: search_cars on a response, for every page, search and cap.  *)
(***************************************************************************)
\* search_cars from the response on: what extraction yields and what is returned
SearchCars(body, brand, model, max_results) ==
    IF ParseRaises(body)
    THEN [used |-> TRUE, raised |-> TRUE, structured |-> <<>>, fallback |-> FALSE,
          extracted |-> <<>>, listings |-> <<>>]
    ELSE [used |-> TRUE, raised |-> FALSE,
          structured |-> StructuredCandidates(body, brand, model),
          fallback |-> FallbackRuns(StructuredCandidates(body, brand, model)),
          extracted |-> _parse_search_results(body, brand, model),
          listings |-> FilterAndCap(_parse_search_results(body, brand, model),
                                    brand, model, max_results)]

InitSearch ==
    /\ InitLoop
    /\ InitBot
    /\ s_in \in { [used |-> TRUE, body |-> b, brand |-> r.brand, model |-> r.model,
                   max_results |-> n] :
                  b \in SearchBodies, r \in SearchRequests, n \in 0..MaxCap }
    /\ s_out = NoSearch
    /\ InitPure
    /\ InitFilter

RunSearch ==
    /\ s_in.used
    /\ ~s_out.used
    /\ s_out' = SearchCars(s_in.body, s_in.brand, s_in.model, s_in.max_results)
    /\ UNCHANGED << pc, i, all_listings, afterSignal, searchLog, clockVars,
                    fetchVars, loopVars, s_in, pureVars, filterVars, botVars >>

NextSearch == RunSearch

SpecSearch == InitSearch /\ [][NextSearch]_vars

(***************************************************************************)
(* SpecMatch: matches_search on a listing, for every listing of a pool of  *)
(* titles, brand fields and model fields and every request.                *)
(***************************************************************************)
Title_Mazda2_comma == <<"M", "a", "z", "d", "a", "2", ",", " ", "2", "0", "1", "0">>
Title_Mazda2_Sport == <<"M", "a", "z", "d", "a", "2", " ", "S", "p", "o", "r", "t">>
Title_Mazda_323 == <<"M", "a", "z", "d", "a", " ", "3", "2", "3">>
Title_Citadine_2_portes == <<"C", "i", "t", "a", "d", "i", "n", "e", " ", "2", " ", "p", "o", "r", "t", "e", "s">>

MatchTitles ==
    { Title_Mazda_2, Title_Mazda2, Title_Peugeot_2008, Title_Peugeot_206,
      Title_Mazda2_comma, Title_Mazda2_Sport, Title_Mazda_323,
      Title_Citadine_2_portes }

\* the brand and the model a listing may carry
MatchBrands == { <<>>, <<"M", "a", "z", "d", "a">>, <<"P", "e", "u", "g", "e", "o", "t">> }
MatchModels == { <<>>, <<"2">>, <<"2", "0", "6">>, <<"C", "X", "-", "3">> }

\* the requests: brand, model
MatchRequests ==
    SearchRequests \cup { ModelConfig(Txt_mazda, <<"3">>),
                          ModelConfig(Txt_mazda, <<"1", "2">>) }

InitMatch ==
    /\ InitLoop
    /\ InitBot
    /\ s_in = NoSearch
    /\ s_out = NoSearch
    /\ m_in \in { [used |-> TRUE, listing |-> CarListing(<<"1">>, t, b, m),
                   brand |-> r.brand, model |-> r.model] :
                  t \in MatchTitles, b \in MatchBrands, m \in MatchModels,
                  r \in MatchRequests }
    /\ m_out = NoSearch
    /\ e_in = NoSearch
    /\ e_out = NoSearch
    /\ InitFilter

RunMatch ==
    /\ m_in.used
    /\ ~m_out.used
    /\ m_out' = [used |-> TRUE,
                 matched |-> matches_search(m_in.listing, m_in.brand, m_in.model)]
    /\ UNCHANGED << pc, i, all_listings, afterSignal, searchLog, clockVars,
                    fetchVars, loopVars, searchVars, m_in, e_in, e_out,
                    filterVars, botVars >>

NextMatch == RunMatch

SpecMatch == InitMatch /\ [][NextMatch]_vars

(***************************************************************************)
(* CarFilter (src/src/filters.py): the rule configuration, the exclusion   *)
(* checks, the scoring and evaluate.                                       *)
(***************************************************************************)
\* the accents _normalize_text replaces, and what replaces each
AccentedChars == <<"é", "è", "ê", "ë", "à", "â", "ù", "û", "ô", "î", "ï", "ç">>
PlainChars == <<"e", "e", "e", "e", "a", "a", "u", "u", "o", "i", "i", "c">>

\* _normalize_text on one character, already lower-cased
PlainChar(c) ==
    IF \E k \in 1..Len(AccentedChars) : AccentedChars[k] = c
    THEN PlainChars[CHOOSE k \in 1..Len(AccentedChars) : AccentedChars[k] = c]
    ELSE c

\* _normalize_text: lower case, then the accents replaced
_normalize_text(text) == [k \in 1..Len(text) |-> PlainChar(LowerChar(text[k]))]

\* str(n) for n >= 0
DigitText == <<"0", "1", "2", "3", "4", "5", "6", "7", "8", "9">>
RECURSIVE IntText(_)
IntText(n) ==
    IF n < 10 THEN << DigitText[n + 1] >>
    ELSE IntText(n \div 10) \o << DigitText[(n % 10) + 1] >>

\* "a b": two texts joined by a space, as the f-strings of the filter do
Spaced(a, b) == a \o <<" ">> \o b

\* criteria.yaml, general: the defaults evaluate falls back on
max_price == 3000
max_km == 150000
min_year == 2008

\* Faulty variant of FirstTrue: the loop goes on to its last hit.
LastTrue(flags) ==
    IF \E k \in 1..Len(flags) : flags[k]
    THEN CHOOSE k \in 1..Len(flags) :
            flags[k] /\ \A j \in (k + 1)..Len(flags) : ~flags[j]
    ELSE 0

\* the first index at which flags is TRUE, 0 when there is none: where a
\* for loop that returns or breaks on its first hit stops
FirstTrue(flags) ==
    IF \E k \in 1..Len(flags) : flags[k]
    THEN CHOOSE k \in 1..Len(flags) : flags[k] /\ \A j \in 1..(k - 1) : ~flags[j]
    ELSE 0

\* the keywords of the blacklist, in the order the two loops visit them
RECURSIVE AllKeywords(_)
AllKeywords(categories) ==
    IF categories = <<>> THEN <<>>
    ELSE Head(categories).keywords \o AllKeywords(Tail(categories))

\* Faulty variant of _check_blacklist: the blacklist is not consulted.
_check_blacklist_Never(self, text) == [hit |-> FALSE, keyword |-> Null]

\* _check_blacklist: (is_blacklisted, keyword_found)
_check_blacklist(self, text) ==
    LET text_normalized == _normalize_text(text)
        keywords == AllKeywords(self.exclusions.blacklist_keywords)
        first == FirstTrue([k \in 1..Len(keywords) |->
                               Contains(text_normalized, _normalize_text(keywords[k]))])
    IN  IF first = 0 THEN [hit |-> FALSE, keyword |-> Null]
        ELSE [hit |-> TRUE, keyword |-> keywords[first]]

\* the rules of a brand, as a sequence of zero or one record
BrandRules(self, brand_lower) ==
    SelectSeq(self.exclusions.brand_exclusions, LAMBDA r : r.brand = brand_lower)

\* a character of a word, for the \b of the regular expression
IsWordChar(c) ==
    \/ \E k \in 1..Len(LowerChars) : c \in {LowerChars[k], UpperChars[k]}
    \/ c \in DigitChars
    \/ c = "_"
    \/ \E k \in 1..Len(AccentedChars) : c = AccentedChars[k]

\* re.search(r"\b1\.[24]\s*(tsi|tdi)\b", text, re.IGNORECASE)
TsiTdiPattern(text) ==
    \E k \in 1..Len(text), w \in 0..Len(text) :
        /\ k + 5 + w <= Len(text)
        /\ text[k] = "1"
        /\ k = 1 \/ ~IsWordChar(text[k - 1])
        /\ text[k + 1] = "."
        /\ text[k + 2] \in {"2", "4"}
        /\ \A j \in 1..w : text[k + 2 + j] = " "
        /\ Lower(SubSeq(text, k + 3 + w, k + 5 + w)) \in { <<"t", "s", "i">>, <<"t", "d", "i">> }
        /\ k + 5 + w = Len(text) \/ ~IsWordChar(text[k + 6 + w])

\* _check_brand_exclusions: (is_excluded, exclusion_reason, warnings), and
\* checks: the checks it went through, in order
_check_brand_exclusions(self, brand, title, description, engine) ==
    LET brand_lower == Lower(brand)
        text == Lower(Spaced(Spaced(title, description), engine))
        found == BrandRules(self, brand_lower)
    IN  IF found = <<>>
        THEN [excluded |-> FALSE, reason |-> Null, warnings |-> <<>>,
              checks |-> <<>>]
        ELSE
        LET brand_rules == found[1]
            engines == brand_rules.engines
            transmissions == brand_rules.transmissions
            e == FirstTrue([k \in 1..Len(engines) |->
                               Contains(text, Lower(engines[k]))])
            t == FirstTrue([k \in 1..Len(transmissions) |->
                               Contains(text, Lower(transmissions[k]))])
            warnings == IF /\ brand_rules.require_manual
                           /\ ~Contains(text, <<"m", "a", "n", "u", "e", "l", "l", "e">>)
                           /\ ~Contains(text, <<"m", "a", "n", "u", "e", "l">>)
                        THEN << <<"V", "é", "r", "i", "f", "i", "e", "r", " ", "a", "b", "s", "e", "n", "c", "e", " ", "C", "V", "T", "/", "a", "u", "t", "o", "m", "a", "t", "i", "q", "u", "e">> >>
                        ELSE <<>>
            accepted == brand_rules.accepted_engines
            engine_detected == \E k \in 1..Len(accepted) :
                                  Contains(text, Lower(accepted[k]))
        IN  IF e # 0
            THEN [excluded |-> TRUE,
                  reason |-> <<"M", "o", "t", "e", "u", "r", " ", "e", "x", "c", "l", "u", ":", " ">> \o engines[e] \o <<" ", "-", " ">>
                             \o brand_rules.reason,
                  warnings |-> <<>>, checks |-> << "engines" >>]
            ELSE IF t # 0
            THEN [excluded |-> TRUE,
                  reason |-> <<"T", "r", "a", "n", "s", "m", "i", "s", "s", "i", "o", "n", " ", "e", "x", "c", "l", "u", "e", ":", " ">> \o transmissions[t] \o <<" ", "-", " ">>
                             \o brand_rules.reason,
                  warnings |-> <<>>, checks |-> << "engines", "transmissions" >>]
            ELSE IF brand_lower = <<"s", "e", "a", "t">> /\ TsiTdiPattern(text) /\ ~engine_detected
            THEN [excluded |-> TRUE,
                  reason |-> <<"S", "e", "a", "t", " ", "I", "b", "i", "z", "a", " ", "a", "v", "e", "c", " ", "m", "o", "t", "e", "u", "r", " ", "T", "S", "I", "/", "T", "D", "I", " ", "e", "x", "c", "l", "u">>,
                  warnings |-> warnings,
                  checks |-> << "engines", "transmissions", "guard" >>]
            ELSE [excluded |-> FALSE, reason |-> Null, warnings |-> warnings,
                  checks |-> << "engines", "transmissions", "guard" >>]

\* Faulty variant of GeneralCriteria: a value equal to its limit excludes.
GeneralCriteria_Inclusive(price, mileage, year, gearbox) ==
    IF price # 0 /\ price >= max_price
    THEN [excluded |-> TRUE, checks |-> << "price" >>,
          reason |-> IntText(price) \o IntText(max_price)]
    ELSE IF mileage # 0 /\ mileage >= max_km
    THEN [excluded |-> TRUE, checks |-> << "price", "mileage" >>,
          reason |-> IntText(mileage)]
    ELSE IF year # 0 /\ year <= min_year
    THEN [excluded |-> TRUE, checks |-> << "price", "mileage", "year" >>,
          reason |-> IntText(year)]
    ELSE [excluded |-> FALSE, checks |-> << "price", "mileage", "year", "gearbox" >>,
          reason |-> Null]

\* evaluate, stage 3: the general criteria, in order; checks: the checks it
\* went through.  A price, mileage or year of 0 stands for None as well: the
\* code tests `if price and ...`.
GeneralCriteria(price, mileage, year, gearbox) ==
    IF price # 0 /\ price > max_price
    THEN [excluded |-> TRUE, checks |-> << "price" >>,
          reason |-> <<"P", "r", "i", "x", " ">> \o IntText(price) \o <<"€", " ", ">", " ", "m", "a", "x", " ">> \o IntText(max_price)
                     \o <<"€">>]
    ELSE IF mileage # 0 /\ mileage > max_km
    THEN [excluded |-> TRUE, checks |-> << "price", "mileage" >>,
          reason |-> <<"K", "m", " ">> \o IntText(mileage) \o <<" ", ">", " ", "m", "a", "x", " ">> \o IntText(max_km)]
    ELSE IF year # 0 /\ year < min_year
    THEN [excluded |-> TRUE, checks |-> << "price", "mileage", "year" >>,
          reason |-> <<"A", "n", "n", "é", "e", " ">> \o IntText(year) \o <<" ", "<", " ", "m", "i", "n", " ">> \o IntText(min_year)]
    ELSE IF gearbox # <<>> /\ Contains(Lower(gearbox), <<"a", "u", "t", "o", "m", "a", "t", "i", "q", "u", "e">>)
    THEN [excluded |-> TRUE, checks |-> << "price", "mileage", "year", "gearbox" >>,
          reason |-> <<"B", "o", "î", "t", "e", " ", "a", "u", "t", "o", "m", "a", "t", "i", "q", "u", "e", " ", "e", "x", "c", "l", "u", "e">>]
    ELSE [excluded |-> FALSE, checks |-> << "price", "mileage", "year", "gearbox" >>,
          reason |-> Null]

\* one optional entry of a scoring list: its points and its explanation
Entry(applies, points, text) ==
    IF applies THEN [points |-> points, items |-> << text >>]
    ELSE [points |-> 0, items |-> <<>>]

\* the maintenance bonus of the keyword that matched first
MaintenanceBonus(kw) ==
    IF Contains(Lower(kw), <<"d", "i", "s", "t", "r", "i", "b", "u", "t", "i", "o", "n">>)
    THEN <<"+", "3", " ", "D", "i", "s", "t", "r", "i", "b", "u", "t", "i", "o", "n", " ", "m", "e", "n", "t", "i", "o", "n", "n", "é", "e">>
    ELSE IF Contains(Lower(kw), <<"c", "h", "a", "î", "n", "e">>) \/ Contains(Lower(kw), <<"c", "h", "a", "i", "n", "e">>)
    THEN <<"+", "3", " ", "M", "o", "t", "e", "u", "r", " ", "c", "h", "a", "î", "n", "e">>
    ELSE <<"+", "3", " ", "E", "n", "t", "r", "e", "t", "i", "e", "n", " ", "s", "u", "i", "v", "i">>

\* _calculate_bonus_points: (bonus_points, list_of_bonuses), with the weights
\* the code falls back on
_calculate_bonus_points(self, brand, model, title, description, price, mileage) ==
    LET text == Lower(Spaced(title, description))
        brand_lower == Lower(brand)
        model_lower == Lower(model)
        maintenance == self.exclusions.positive_keywords.maintenance
        m == FirstTrue([k \in 1..Len(maintenance) |->
                           Contains(_normalize_text(text),
                                    _normalize_text(maintenance[k]))])
        entries == <<
            Entry(/\ brand_lower = <<"m", "a", "z", "d", "a">> /\ Contains(model_lower, <<"2">>)
                  /\ \/ Contains(text, <<"e", "s", "s", "e", "n", "c", "e">>)
                     \/ Contains(text, <<"c", "h", "a", "î", "n", "e">>)
                     \/ Contains(text, <<"c", "h", "a", "i", "n", "e">>),
                  10, <<"+", "1", "0", " ", "M", "a", "z", "d", "a", " ", "2", " ", "e", "s", "s", "e", "n", "c", "e", "/", "c", "h", "a", "î", "n", "e">>),
            Entry(/\ brand_lower = <<"h", "o", "n", "d", "a">> /\ Contains(model_lower, <<"j", "a", "z", "z">>)
                  /\ Contains(text, <<"m", "a", "n", "u", "e", "l", "l", "e">>) \/ Contains(text, <<"m", "a", "n", "u", "e", "l">>),
                  10, <<"+", "1", "0", " ", "H", "o", "n", "d", "a", " ", "J", "a", "z", "z", " ", "m", "a", "n", "u", "e", "l", "l", "e">>),
            Entry(brand_lower = <<"s", "u", "z", "u", "k", "i">> /\ Contains(model_lower, <<"s", "w", "i", "f", "t">>),
                  10, <<"+", "1", "0", " ", "S", "u", "z", "u", "k", "i", " ", "S", "w", "i", "f", "t", " ", "3">>),
            Entry(/\ brand_lower = <<"s", "e", "a", "t">> /\ Contains(model_lower, <<"i", "b", "i", "z", "a">>)
                  /\ \/ Contains(text, <<"1", ".", "4", " ", "1", "6", "v">>)
                     \/ Contains(text, <<"1", ".", "2", " ", "1", "2", "v">>)
                     \/ Contains(text, <<"a", "t", "m", "o", "s", "p", "h", "é", "r", "i", "q", "u", "e">>)
                     \/ Contains(text, <<"a", "t", "m", "o">>),
                  5, <<"+", "5", " ", "S", "e", "a", "t", " ", "I", "b", "i", "z", "a", " ", "a", "t", "m", "o", "s", "p", "h", "é", "r", "i", "q", "u", "e">>),
            Entry(brand_lower = <<"t", "o", "y", "o", "t", "a">> /\ Contains(model_lower, <<"y", "a", "r", "i", "s">>),
                  5, <<"+", "5", " ", "T", "o", "y", "o", "t", "a", " ", "Y", "a", "r", "i", "s">>),
            Entry(m # 0, 3,
                  IF m # 0 THEN MaintenanceBonus(maintenance[m]) ELSE <<>>),
            Entry(price # 0 /\ price < 2500, 2, <<"+", "2", " ", "P", "r", "i", "x", " ", "<", " ", "2", "5", "0", "0", "€">>),
            Entry(mileage # 0 /\ mileage < 100000, 2, <<"+", "2", " ", "K", "m", " ", "<", " ", "1", "0", "0", " ", "0", "0", "0">>) >>
    IN  [points |-> entries[1].points + entries[2].points + entries[3].points
                    + entries[4].points + entries[5].points + entries[6].points
                    + entries[7].points + entries[8].points,
         items |-> entries[1].items \o entries[2].items \o entries[3].items
                   \o entries[4].items \o entries[5].items \o entries[6].items
                   \o entries[7].items \o entries[8].items]

\* the keywords of the "suspicious" category of the blacklist
SuspiciousKeywords(self) ==
    AllKeywords(SelectSeq(self.exclusions.blacklist_keywords,
                          LAMBDA c : c.category = "suspicious"))

\* Faulty variant of _calculate_penalty_points: diesel costs nothing.
_calculate_penalty_points_NoDiesel(self, brand, title, description, fuel) ==
    [points |-> 0, items |-> <<>>]

\* _calculate_penalty_points: (penalty_points, list_of_penalties)
_calculate_penalty_points(self, brand, title, description, fuel) ==
    LET suspicious == SuspiciousKeywords(self) IN
    LET text == Lower(Spaced(Spaced(title, description), fuel))
        s == FirstTrue([k \in 1..Len(suspicious) |->
                           Contains(_normalize_text(text),
                                    _normalize_text(suspicious[k]))])
        diesel == Entry(\/ Contains(text, <<"d", "i", "e", "s", "e", "l">>)
                        \/ fuel # <<>> /\ Contains(Lower(fuel), <<"d", "i", "e", "s", "e", "l">>),
                        0 - 5, <<"-", "5", " ", "D", "i", "e", "s", "e", "l">>)
        suspect == Entry(s # 0, 0 - 10,
                         IF s # 0 THEN <<"-", "1", "0", " ", "M", "o", "t", " ", "s", "u", "s", "p", "e", "c", "t", ":", " ">> \o suspicious[s]
                         ELSE <<>>)
    IN  [points |-> diesel.points + suspect.points,
         items |-> diesel.items \o suspect.items]

\* Faulty variant of ScoreResult: a result starts at the middle tier.
ScoreResult_Medium ==
    [total_score |-> 0, priority |-> "medium", bonuses |-> <<>>,
     penalties |-> <<>>, warnings |-> <<>>, excluded |-> FALSE,
     exclusion_reason |-> Null]

\* ScoreResult(): the defaults of the dataclass
ScoreResult ==
    [total_score |-> 0, priority |-> "low", bonuses |-> <<>>,
     penalties |-> <<>>, warnings |-> <<>>, excluded |-> FALSE,
     exclusion_reason |-> Null]

\* Faulty variant of Priority: a score equal to the high threshold is high.
Priority_AtLeastHigh(total_score, high_threshold, medium_threshold) ==
    IF total_score >= high_threshold THEN "high"
    ELSE IF total_score >= medium_threshold THEN "medium"
    ELSE "low"

\* evaluate, step 7: the tier of a score under the two thresholds
Priority(total_score, high_threshold, medium_threshold) ==
    IF total_score > high_threshold THEN "high"
    ELSE IF total_score >= medium_threshold THEN "medium"
    ELSE "low"

\* evaluate on a listing with the thresholds of filter: the ScoreResult it
\* returns, and stages: the checks it went through, in the order it ran them
EvaluateRun(filter, listing) ==
    LET full_text == Spaced(listing.title, listing.description)
        black == _check_blacklist(filter, full_text)
        brands == _check_brand_exclusions(filter, listing.brand, listing.title,
                                          listing.description, listing.engine)
        general == GeneralCriteria(listing.price, listing.mileage, listing.year,
                                   listing.gearbox)
        bonus == _calculate_bonus_points(filter, listing.brand, listing.model,
                                         listing.title, listing.description,
                                         listing.price, listing.mileage)
        penalty == _calculate_penalty_points(filter, listing.brand, listing.title,
                                             listing.description, listing.fuel)
        total_score == bonus.points + penalty.points
    IN  IF black.hit
        THEN [result |-> [ScoreResult EXCEPT
                            !.excluded = TRUE,
                            !.exclusion_reason = <<"M", "o", "t", "-", "c", "l", "é", " ", "b", "l", "a", "c", "k", "l", "i", "s", "t", ":", " ">>
                                                 \o black.keyword],
              stages |-> << "blacklist" >>]
        ELSE IF brands.excluded
        THEN [result |-> [ScoreResult EXCEPT
                            !.excluded = TRUE,
                            !.exclusion_reason = brands.reason],
              stages |-> << "blacklist" >> \o brands.checks]
        ELSE IF general.excluded
        THEN [result |-> [ScoreResult EXCEPT
                            !.warnings = brands.warnings,
                            !.excluded = TRUE,
                            !.exclusion_reason = general.reason],
              stages |-> << "blacklist" >> \o brands.checks \o general.checks]
        ELSE [result |-> [ScoreResult EXCEPT
                            !.warnings = brands.warnings,
                            !.bonuses = bonus.items,
                            !.penalties = penalty.items,
                            !.total_score = total_score,
                            !.priority = Priority(total_score,
                                                  filter.high_threshold,
                                                  filter.medium_threshold)],
              stages |-> << "blacklist" >> \o brands.checks \o general.checks
                         \o << "scoring" >>]

\* CarFilter.evaluate: the ScoreResult
evaluate(filter, listing) == EvaluateRun(filter, listing).result

(***************************************************************************)
(* SpecEvaluate: one call of CarFilter.evaluate on a listing drawn from a  *)
(* pool that reaches every exclusion cause and every score tier, under     *)
(* thresholds drawn from a pool that has a high threshold below the medium *)
(* one.                                                                    *)
(***************************************************************************)
\* evaluate's arguments: None is <<>> for a text and 0 for a number
Listing(title, brand, model, engine, description, price, mileage, year, fuel, gearbox) ==
    [title |-> title, brand |-> brand, model |-> model, engine |-> engine,
     description |-> description, price |-> price, mileage |-> mileage,
     year |-> year, fuel |-> fuel, gearbox |-> gearbox]

\* the cars: title, brand, model, engine
EvalCars ==
    { << <<"M", "a", "z", "d", "a", " ", "2", " ", "e", "s", "s", "e", "n", "c", "e">>, <<"M", "a", "z", "d", "a">>, <<"2">>, <<>> >>,
      << <<"H", "o", "n", "d", "a", " ", "J", "a", "z", "z", " ", "I", "M", "A", " ", "C", "V", "T">>, <<"H", "o", "n", "d", "a">>, <<"J", "a", "z", "z">>, <<>> >>,
      << <<"H", "o", "n", "d", "a", " ", "J", "a", "z", "z">>, <<"H", "o", "n", "d", "a">>, <<"J", "a", "z", "z">>, <<"C", "V", "T">> >>,
      << <<"H", "o", "n", "d", "a", " ", "J", "a", "z", "z", " ", "m", "a", "n", "u", "e", "l", "l", "e">>, <<"H", "o", "n", "d", "a">>, <<"J", "a", "z", "z">>, <<>> >>,
      << <<"S", "e", "a", "t", " ", "I", "b", "i", "z", "a", " ", "1", ".", "2", " ", "T", "S", "I">>, <<"S", "e", "a", "t">>, <<"I", "b", "i", "z", "a">>, <<>> >>,
      << <<"S", "e", "a", "t", " ", "I", "b", "i", "z", "a", " ", "1", ".", "4", " ", "1", "6", "v">>, <<"S", "e", "a", "t">>, <<"I", "b", "i", "z", "a">>, <<"1", ".", "4", " ", "T", "D", "I">> >>,
      << <<"P", "e", "u", "g", "e", "o", "t", " ", "2", "0", "8", " ", "V", "T", "i", " ", "e", "n", " ", "p", "a", "n", "n", "e">>, <<"P", "e", "u", "g", "e", "o", "t">>, <<"2", "0", "8">>, <<>> >>,
      << <<"P", "e", "u", "g", "e", "o", "t", " ", "2", "0", "8", " ", "V", "T", "i">>, <<"P", "e", "u", "g", "e", "o", "t">>, <<"2", "0", "8">>, <<>> >>,
      << <<"T", "o", "y", "o", "t", "a", " ", "Y", "a", "r", "i", "s">>, <<"T", "o", "y", "o", "t", "a">>, <<"Y", "a", "r", "i", "s">>, <<>> >>,
      << <<"C", "i", "t", "a", "d", "i", "n", "e">>, <<>>, <<>>, <<>> >> }


\* the listings: each car with each description, price, mileage, year, fuel
\* and gearbox
EvalListings ==
    { Listing(c[1], c[2], c[3], c[4], d, p, k, y, f, g) :
        c \in EvalCars,
        d \in { <<>>, <<"E", "n", "t", "r", "e", "t", "i", "e", "n", " ", "s", "u", "i", "v", "i", ",", " ", "c", "h", "a", "i", "n", "e">>, <<"E", "p", "a", "v", "e">> },
        p \in {0, 2400, 5000},
        k \in {0, 85000, 200000},
        y \in {0, 2005, 2012},
        f \in { <<>>, <<"D", "i", "e", "s", "e", "l", " ", "s", "a", "n", "s", " ", "g", "a", "r", "a", "n", "t", "i", "e">> },
        g \in { <<>>, <<"A", "u", "t", "o", "m", "a", "t", "i", "q", "u", "e">> } }

InitEvaluate ==
    /\ InitLoop
    /\ InitBot
    /\ s_in = NoSearch
    /\ s_out = NoSearch
    /\ m_in = NoSearch
    /\ m_out = NoSearch
    /\ e_in \in { [used |-> TRUE, listing |-> l] : l \in EvalListings }
    /\ e_out = NoSearch
    /\ car_filter \in { [high_threshold |-> h, medium_threshold |-> m,
                         exclusions |-> Exclusions] :
                        h \in {5, 12, default_high_threshold},
                        m \in {default_medium_threshold, 13} }
    /\ db_config = NoConfig
    /\ results = <<>>
    /\ reply = [n |-> 0, args |-> <<>>, outcome |-> "none"]
    /\ startup = [n |-> 1, restored |-> NoConfig]

RunEvaluate ==
    /\ e_in.used
    /\ ~e_out.used
    /\ LET run == EvaluateRun(car_filter, e_in.listing)
       IN  e_out' = [used |-> TRUE, result |-> run.result, stages |-> run.stages]
    /\ UNCHANGED << pc, i, all_listings, afterSignal, searchLog, clockVars,
                    fetchVars, loopVars, searchVars, m_in, m_out, e_in,
                    filterVars, botVars >>

NextEvaluate == RunEvaluate

SpecEvaluate == InitEvaluate /\ [][NextEvaluate]_vars

(***************************************************************************)
(* SpecCriteria: one call of evaluate by a freshly constructed CarFilter,  *)
(* whose exclusions.yaml is present, empty, missing or not parseable, on   *)
(* listings at and around the limits of the general criteria.              *)
(***************************************************************************)
\* the listings: cars (title, brand, model) with each description, price,
\* mileage, year, gearbox and fuel
CriteriaListings ==
    { Listing(c[1], c[2], c[3], <<>>, d, p, k, y, f, g) :
        c \in { << <<"M", "a", "z", "d", "a", " ", "2", " ", "e", "s", "s", "e", "n", "c", "e">>, <<"M", "a", "z", "d", "a">>, <<"2">> >>,
                << <<"H", "o", "n", "d", "a", " ", "J", "a", "z", "z", " ", "1", ".", "4">>, <<"H", "o", "n", "d", "a">>, <<"J", "a", "z", "z">> >>,
                << <<"P", "e", "u", "g", "e", "o", "t", " ", "2", "0", "8", " ", "V", "T", "i", " ", "e", "n", " ", "p", "a", "n", "n", "e">>, <<"P", "e", "u", "g", "e", "o", "t">>, <<"2", "0", "8">> >>,
                << <<"C", "i", "t", "a", "d", "i", "n", "e">>, <<>>, <<>> >> },
        d \in { <<>>, <<"D", "i", "s", "t", "r", "i", "b", "u", "t", "i", "o", "n", " ", "f", "a", "i", "t", "e", ",", " ", "c", "h", "a", "i", "n", "e">>, <<"D", "i", "e", "s", "e", "l", ",", " ", "e", "n", "t", "r", "e", "t", "i", "e", "n", " ", "s", "u", "i", "v", "i">> },
        p \in {0, 2400, max_price, max_price + 1},
        k \in {0, max_km, max_km + 1},
        y \in {0, min_year - 1, min_year},
        f \in { <<>>, <<"D", "i", "e", "s", "e", "l">> },
        g \in { <<>>, <<"B", "o", "î", "t", "e", " ", "a", "u", "t", "o", "m", "a", "t", "i", "q", "u", "e">> } }

\* exclusions.yaml on disk
CriteriaFiles ==
    { RuleFile("present", Exclusions), RuleFile("empty", NoExclusions),
      RuleFile("missing", NoExclusions), RuleFile("malformed", NoExclusions) }

InitCriteria ==
    /\ InitLoop
    /\ InitBot
    /\ s_in = NoSearch
    /\ s_out = NoSearch
    /\ m_in = NoSearch
    /\ m_out = NoSearch
    /\ \E file \in CriteriaFiles, l \in CriteriaListings :
          /\ e_in = [used |-> TRUE, listing |-> l, file |-> file.state]
          /\ car_filter = CarFilter(file)
    /\ e_out = NoSearch
    /\ db_config = NoConfig
    /\ results = <<>>
    /\ reply = [n |-> 0, args |-> <<>>, outcome |-> "none"]
    /\ startup = [n |-> 1, restored |-> NoConfig]

SpecCriteria == InitCriteria /\ [][NextEvaluate]_vars

(***************************************************************************)
(* SpecThreshold: the life of the high threshold.  /sethighscore commands  *)
(* (src/src/telegram_bot.py), restarts of the bot that restore the         *)
(* persisted value (src/src/main.py, _init_components) and evaluations in  *)
(* between.                                                                *)
(***************************************************************************)
\* Faulty variant of set_high_threshold: the setter moves both thresholds.
set_high_threshold_Both(filter, value) ==
    [filter EXCEPT !.high_threshold = value, !.medium_threshold = value]

\* CarFilter.set_high_threshold
set_high_threshold(filter, value) == [filter EXCEPT !.high_threshold = value]

\* the value of a text of decimal digits
RECURSIVE DigitsValue(_)
DigitsValue(digits) ==
    IF digits = <<>> THEN 0
    ELSE 10 * DigitsValue(SubSeq(digits, 1, Len(digits) - 1))
         + (CHOOSE d \in 0..9 : DigitText[d + 1] = digits[Len(digits)])

\* int(text): an optional sign, then decimal digits; ValueError otherwise
ParseInt(text) ==
    LET signed == text # <<>> /\ text[1] \in {"+", "-"}
        digits == IF signed THEN Tail(text) ELSE text
    IN  IF digits # <<>> /\ \A k \in 1..Len(digits) : digits[k] \in DigitChars
        THEN [ok |-> TRUE,
              value |-> IF signed /\ text[1] = "-" THEN 0 - DigitsValue(digits)
                        ELSE DigitsValue(digits)]
        ELSE [ok |-> FALSE, value |-> 0]

\* Faulty variant of ThresholdInRange: no upper limit.
ThresholdInRange_NoUpper(new_threshold) == ~(new_threshold < 0)

\* _cmd_set_high_score: the values that do not raise "Valeur hors limites"
ThresholdInRange(new_threshold) == ~(new_threshold < 0 \/ new_threshold > 100)

\* context.args of the commands
CommandArgs ==
    { <<>>, << <<"-", "1">> >>, << <<"0">> >>, << <<"1", "2">> >>, << <<"1", "0", "1">> >>, << <<"a", "b", "c">> >>,
      << <<"1", ".", "5">> >>, << <<"5">>, <<"7">> >> }

\* the listings evaluated between the commands
ThresholdListings ==
    { Listing(<<"M", "a", "z", "d", "a", " ", "2", " ", "e", "s", "s", "e", "n", "c", "e">>, <<"M", "a", "z", "d", "a">>, <<"2">>, <<>>, <<>>, 2400, 0, 2012, <<>>, <<>>),
      Listing(<<"T", "o", "y", "o", "t", "a", " ", "Y", "a", "r", "i", "s">>, <<"T", "o", "y", "o", "t", "a">>, <<"Y", "a", "r", "i", "s">>, <<>>, <<>>, 0, 0, 0, <<>>, <<>>) }

\* how many evaluations, commands and starts a behaviour has at most
MaxResults == 2
MaxCommands == 2
MaxStarts == 2

InitThreshold ==
    /\ InitLoop
    /\ InitBot
    /\ s_in = NoSearch
    /\ s_out = NoSearch
    /\ InitPure
    /\ InitFilter

\* TelegramBot._cmd_set_high_score with context.args = args
CmdSetHighScore(args) ==
    /\ reply.n < MaxCommands
    /\ IF args = <<>>
       THEN /\ reply' = [n |-> reply.n + 1, args |-> args, outcome |-> "usage"]
            /\ UNCHANGED << car_filter, db_config >>
       ELSE LET new_threshold == ParseInt(args[1])
            IN  IF new_threshold.ok /\ ThresholdInRange(new_threshold.value)
                THEN /\ car_filter' = set_high_threshold(car_filter,
                                                         new_threshold.value)
                     /\ db_config' = IntText(new_threshold.value)
                     /\ reply' = [n |-> reply.n + 1, args |-> args,
                                  outcome |-> "updated"]
                ELSE /\ reply' = [n |-> reply.n + 1, args |-> args,
                                  outcome |-> "invalid"]
                     /\ UNCHANGED << car_filter, db_config >>
    /\ UNCHANGED << pc, i, all_listings, afterSignal, searchLog, clockVars,
                    fetchVars, loopVars, searchVars, pureVars, results,
                    startup, botVars >>

\* a new process: CarFilter() with the thresholds of the configuration, then
\* _init_components restores the persisted high threshold when there is one
Restart ==
    /\ startup.n < MaxStarts
    /\ startup' = [n |-> startup.n + 1, restored |-> db_config]
    /\ LET fresh == CarFilter(RuleFile("present", Exclusions))
           saved_threshold == db_config
       IN  /\ saved_threshold # NoConfig /\ saved_threshold # <<>>
                => ParseInt(saved_threshold).ok
           /\ car_filter' =
                IF saved_threshold # NoConfig /\ saved_threshold # <<>>
                THEN set_high_threshold(fresh, ParseInt(saved_threshold).value)
                ELSE fresh
    /\ UNCHANGED << pc, i, all_listings, afterSignal, searchLog, clockVars,
                    fetchVars, loopVars, searchVars, pureVars, db_config,
                    results, reply, botVars >>

\* one evaluation, whose ScoreResult the caller keeps
Evaluate(listing) ==
    /\ Len(results) < MaxResults
    /\ results' = Append(results, [listing |-> listing,
                                   result |-> evaluate(car_filter, listing)])
    /\ UNCHANGED << pc, i, all_listings, afterSignal, searchLog, clockVars,
                    fetchVars, loopVars, searchVars, pureVars, car_filter,
                    db_config, reply, startup, botVars >>

NextThreshold ==
    \/ \E args \in CommandArgs : CmdSetHighScore(args)
    \/ Restart
    \/ \E listing \in ThresholdListings : Evaluate(listing)

SpecThreshold == InitThreshold /\ [][NextThreshold]_vars

(***************************************************************************)
(* SpecBot: the bot from run() on (src/src/main.py): the /start and /stop  *)
(* commands, the monitoring loop tasks on the event loop, the listings     *)
(* table and the notifications.  A step is what runs between two awaits.   *)
(***************************************************************************)
\* the listing behind each id
BotListing(id) ==
    IF id = 1
    THEN Listing(<<"M", "a", "z", "d", "a", " ", "2", " ", "e", "s", "s", "e", "n", "c", "e">>, <<"M", "a", "z", "d", "a">>, <<"2">>, <<>>, <<>>, 2400, 0, 2012, <<>>, <<>>)
    ELSE Listing(<<"P", "e", "u", "g", "e", "o", "t", " ", "2", "0", "8", " ", "V", "T", "i", " ", "e", "n", " ", "p", "a", "n", "n", "e">>, <<"P", "e", "u", "g", "e", "o", "t">>, <<"2", "0", "8">>, <<>>, <<>>, 0, 0, 0, <<>>, <<>>)

\* what _search_all_models returns in one cycle
BotFound == { <<>>, <<1>>, <<2>>, <<1, 1>>, <<1, 2>>, <<2, 1>> }

\* how many notifications of one listing a behaviour has at most
MaxDeliveries == 2

\* asyncio.create_task(self._monitoring_loop()): the task starts at the top
\* of the loop
CreateTask(ts) ==
    LET t == CHOOSE t \in TaskIds :
                ~ts[t].alive /\ \A u \in TaskIds : u < t => ts[u].alive
    IN  [id |-> t, tasks |-> [ts EXCEPT ![t] = [NoTask EXCEPT !.alive = TRUE,
                                                              !.pc = "check"]]]

\* run(): _init_components restores the monitoring state, the Telegram bot
\* starts polling, and run awaits send_startup_message
RunStart(restored) ==
    /\ run_pc = "off"
    /\ run_pc' = "startup_message"
    /\ is_monitoring' = restored
    /\ UNCHANGED << monitoring_task, tasks, table, sink_log >>
    /\ UNCHANGED restVars

\* run(), after the startup message: the loop task is created when the
\* monitoring is active
RunStartMonitoring ==
    /\ run_pc = "startup_message"
    /\ run_pc' = "waiting"
    /\ IF is_monitoring
       THEN /\ tasks' = CreateTask(tasks).tasks
            /\ monitoring_task' = CreateTask(tasks).id
       ELSE UNCHANGED << monitoring_task, tasks >>
    /\ UNCHANGED << is_monitoring, table, sink_log >>
    /\ UNCHANGED restVars

\* TelegramBot._cmd_start, with LeboncoinBot._on_monitoring_start as callback
\* (a loop task is never done while _running is true)
CmdStart ==
    /\ run_pc \in {"startup_message", "waiting"}
    /\ IF is_monitoring
       THEN UNCHANGED << is_monitoring, monitoring_task, tasks >>
       ELSE /\ is_monitoring' = TRUE
            /\ IF monitoring_task = None
               THEN /\ tasks' = CreateTask(tasks).tasks
                    /\ monitoring_task' = CreateTask(tasks).id
               ELSE UNCHANGED << monitoring_task, tasks >>
    /\ UNCHANGED << run_pc, table, sink_log >>
    /\ UNCHANGED restVars

\* TelegramBot._cmd_stop
CmdStop ==
    /\ run_pc \in {"startup_message", "waiting"}
    /\ is_monitoring' = FALSE
    /\ UNCHANGED << run_pc, monitoring_task, tasks, table, sink_log >>
    /\ UNCHANGED restVars

\* Faulty variant of ShouldRunCycle: the loop does not look at the flag.
ShouldRunCycle_Always(monitoring) == TRUE

\* _monitoring_loop: a cycle is run when telegram_bot.is_monitoring()
ShouldRunCycle(monitoring) == monitoring

\* _monitoring_loop, top of the loop: sleep 10 s when the monitoring is off,
\* else start the cycle and hand the searches to a thread
MonitorCheck(t) ==
    /\ tasks[t].alive
    /\ tasks[t].pc = "check"
    /\ tasks' = IF ShouldRunCycle(is_monitoring)
                THEN [tasks EXCEPT ![t].pc = "searching"]
                ELSE tasks
    /\ UNCHANGED << is_monitoring, run_pc, monitoring_task, table, sink_log >>
    /\ UNCHANGED restVars

\* asyncio.to_thread(self._search_all_models) returns
MonitorSearch(t, found) ==
    /\ tasks[t].pc = "searching"
    /\ tasks' = [tasks EXCEPT ![t].pc = "processing", ![t].todo = found]
    /\ UNCHANGED << is_monitoring, run_pc, monitoring_task, table, sink_log >>
    /\ UNCHANGED restVars

\* Faulty variant of ShouldNotify: excluded listings are sent as well.
ShouldNotify_Always(score_result) == TRUE

\* _process_listings: "Si exclue, pas de notification"
ShouldNotify(score_result) == ~score_result.excluded

\* _process_listings, one listing up to the await of send_notification:
\* listing_exists, evaluate, add_listing, the exclusion test
ProcessListing(t) ==
    /\ tasks[t].pc = "processing"
    /\ tasks[t].todo # <<>>
    /\ LET id == Head(tasks[t].todo)
           score_result == evaluate(car_filter, BotListing(id))
       IN  IF table[id].stored
           THEN /\ tasks' = [tasks EXCEPT ![t].todo = Tail(@)]
                /\ UNCHANGED table
           ELSE /\ table' = [table EXCEPT ![id] =
                                [stored |-> TRUE, excluded |-> score_result.excluded,
                                 notified |-> FALSE, old |-> FALSE]]
                /\ tasks' = IF ShouldNotify(score_result)
                            THEN [tasks EXCEPT ![t].todo = Tail(@),
                                               ![t].pc = "sending",
                                               ![t].current = id]
                            ELSE [tasks EXCEPT ![t].todo = Tail(@)]
    /\ UNCHANGED << is_monitoring, run_pc, monitoring_task, sink_log >>
    /\ UNCHANGED restVars

\* send_notification returns True, returns False (TelegramError) or raises;
\* mark_as_notified on True updates the row if it is still there
SendNotification(t, outcome) ==
    /\ tasks[t].pc = "sending"
    /\ sink_log[tasks[t].current].delivered < MaxDeliveries
    /\ LET id == tasks[t].current
       IN  IF outcome = "sent"
           THEN /\ sink_log' = [sink_log EXCEPT ![id].delivered = @ + 1]
                /\ table' = IF table[id].stored
                            THEN [table EXCEPT ![id].notified = TRUE]
                            ELSE table
           ELSE /\ sink_log' = [sink_log EXCEPT ![id].failed = TRUE]
                /\ UNCHANGED table
    /\ tasks' = [tasks EXCEPT ![t].pc = "processing", ![t].current = 0]
    /\ UNCHANGED << is_monitoring, run_pc, monitoring_task >>
    /\ UNCHANGED restVars

\* the end of a cycle: cleanup_old_listings(30) deletes the rows discovered
\* more than 30 days ago, then the loop waits for the next cycle
MonitorCleanup(t) ==
    /\ tasks[t].pc = "processing"
    /\ tasks[t].todo = <<>>
    /\ table' = [id \in BotIds |-> IF table[id].old THEN NoRow ELSE table[id]]
    /\ tasks' = [tasks EXCEPT ![t].pc = "waiting"]
    /\ UNCHANGED << is_monitoring, run_pc, monitoring_task, sink_log >>
    /\ UNCHANGED restVars

\* the wait for the next cycle times out
MonitorWait(t) ==
    /\ tasks[t].pc = "waiting"
    /\ tasks' = [tasks EXCEPT ![t].pc = "check"]
    /\ UNCHANGED << is_monitoring, run_pc, monitoring_task, table, sink_log >>
    /\ UNCHANGED restVars

\* time passes: a stored listing becomes older than 30 days
AgeListing(id) ==
    /\ table[id].stored
    /\ ~table[id].old
    /\ table' = [table EXCEPT ![id].old = TRUE]
    /\ UNCHANGED << is_monitoring, run_pc, monitoring_task, tasks, sink_log >>
    /\ UNCHANGED restVars

NextBot ==
    \/ \E restored \in BOOLEAN : RunStart(restored)
    \/ RunStartMonitoring
    \/ CmdStart
    \/ CmdStop
    \/ \E t \in TaskIds : MonitorCheck(t)
    \/ \E t \in TaskIds, found \in BotFound : MonitorSearch(t, found)
    \/ \E t \in TaskIds : ProcessListing(t)
    \/ \E t \in TaskIds, outcome \in {"sent", "false", "raised"} :
          SendNotification(t, outcome)
    \/ \E t \in TaskIds : MonitorCleanup(t)
    \/ \E t \in TaskIds : MonitorWait(t)
    \/ \E id \in BotIds : AgeListing(id)

SpecBot == Init /\ [][NextBot]_vars

(***************************************************************************)
(* The claims.                                                             *)
(***************************************************************************)
\* the attempts of the current fetch call that have ended without HTTP 200
FailedAttempts ==
    { k \in 1..Len(sent) : sent[k].status \notin {"200", "in flight"} }

\* the fetch call is between its first and its last step
InRetryLoop == pc \in {"send", "inflight", "backoff"}

\* C1: in one fetch call, an attempt that receives HTTP 200 is the last
\* attempt of the call: the call has returned the response, no attempt
\* follows it and every backoff sleep of the call precedes it.
C1_ReturnsOnFirst200 ==
    \A k \in 1..Len(sent) :
        sent[k].status = "200" =>
            /\ k = Len(sent)
            /\ fetchResult = "response"
            /\ ~InRetryLoop
            /\ \A j \in 1..Len(sleeps) : sleeps[j].attempt < k - 1

\* a fetch call has returned its response at the second attempt
C1_Witness ==
    /\ fetchResult = "response"
    /\ Len(sent) = 2
    /\ sent[1].status = "429"
    /\ sent[2].status = "200"
    /\ Len(sleeps) = 1

\* what is left of the retry loop: it decreases with every step of the call
LoopMeasure ==
    3 * (max_retries - attempt)
    - (CASE pc = "send" -> 0 [] pc = "inflight" -> 1 [] pc = "backoff" -> 2
         [] OTHER -> 0)

\* C2: a fetch call issues at most max_retries attempts whatever their
\* outcomes, every step of its retry loop brings it closer to its end, and
\* a call that ended without an HTTP 200 returned None (it did not raise).
C2_BoundedAttemptsThenFailure ==
    /\ [](/\ Len(sent) <= max_retries
          /\ (fetchResult \notin {"none", "pending"}
              /\ \A k \in 1..Len(sent) : sent[k].status # "200")
             => (fetchResult = "failure" /\ Len(sent) = max_retries /\ ~InRetryLoop)
          /\ (Len(sent) = max_retries /\ FailedAttempts = 1..max_retries)
             => fetchResult = "failure")
    /\ [][(InRetryLoop /\ InRetryLoop' /\ pc' # pc)
          => (LoopMeasure' < LoopMeasure /\ LoopMeasure' >= 0)]_vars

\* a fetch call has failed after 403, a timeout and a network error
C2_Witness ==
    /\ fetchResult = "failure"
    /\ pc = "models"
    /\ Len(sent) = max_retries
    /\ sent[1].status = "403"
    /\ sent[2].status = "timeout"
    /\ sent[3].status = "neterror"

\* C3: the attempt that follows an HTTP 403 in the same fetch call is sent
\* with another client than the one that received the 403.
C3_FreshClientAfter403 ==
    \A k \in 1..(Len(sent) - 1) :
        sent[k].status = "403" => sent[k + 1].client # sent[k].client

\* C4: an attempt that ends with 429, another non-200 status, a timeout or a
\* network error leaves the scraper's client as it is and is followed by the
\* backoff and the next attempt when attempts remain; no step of the retry
\* loop drops the client but the receipt of a 403.
C4_ClientKeptUnless403 ==
    /\ [][(pc = "inflight" /\ pc' # "inflight")
          => LET o == sent'[Len(sent')].status
             IN  /\ o # "403" => (_client' = _client /\ clients' = clients)
                 /\ (o # "200" /\ attempt < max_retries - 1) => pc' = "backoff"
                 /\ client' = client]_vars
    /\ [][(pc = "backoff" /\ pc' # "backoff")
          => (pc' = "send" /\ attempt' = attempt + 1
              /\ _client' = _client /\ clients' = clients)]_vars
    /\ [](fetchResult = "failure" => Len(sent) = max_retries)

\* after a 429 and a timeout the client is still there and a third attempt runs
C4_Witness ==
    /\ pc = "inflight"
    /\ Len(sent) = 3
    /\ sent[1].status = "429"
    /\ sent[2].status = "timeout"
    /\ _client # None
    /\ _client = client

\* C5: the j-th backoff sleep of a fetch call follows its j-th attempt, which
\* failed and is not the last one allowed, and lasts between 2^(j-1) and 2^j
\* seconds; every failed attempt but the last one allowed is followed by its
\* sleep, so that a call whose attempts all fail sleeps max_retries - 1 times.
C5_BackoffBetweenAttempts ==
    /\ \A j \in 1..Len(sleeps) :
          /\ sleeps[j].attempt = j - 1
          /\ j < max_retries
          /\ j \in FailedAttempts
          /\ 2 ^ (j - 1) <= sleeps[j].seconds
          /\ sleeps[j].seconds <= 2 ^ j
    /\ Len(sleeps) = Cardinality(FailedAttempts \ {max_retries})
                     - (IF pc = "backoff" THEN 1 ELSE 0)
    /\ fetchResult = "failure" => Len(sleeps) = max_retries - 1

\* a fetch call has failed after sleeps of 2 and 3 seconds
C5_Witness ==
    /\ fetchResult = "failure"
    /\ Len(sleeps) = max_retries - 1
    /\ sleeps[1].seconds = 2
    /\ sleeps[2].seconds = 3

\* C6: the first request of a fetch call is sent at least the delay drawn for
\* that call after the end of the previous outbound request.
C6_DelaySinceRequestEnd ==
    (pc = "inflight" /\ attempt = 0) => since_request_end >= delay

\* C7: after shutdown() no attempt is started and no fetch is begun.
C7_NothingStartsAfterSignal ==
    /\ ~afterSignal.attempts
    /\ ~afterSignal.fetches

\* C8 as stated: every request is a draw of its own, so that no two attempts
\* of a fetch call carry the identity of the same draw.
C8_DrawPerRequest ==
    \A j, k \in 1..Len(sent) : j # k => sent[j].client # sent[k].client

\* C8 as amended: the identity is drawn when a client is built, which
\* _get_client does only when the scraper holds none; every attempt of a
\* fetch call is sent with the client the call obtained at its start, and a
\* call that finds a client reuses it without a draw.
C8_DrawPerClient ==
    /\ [](/\ \A k \in 1..Len(sent) : sent[k].client = client
          /\ InRetryLoop => client \in DOMAIN clients)
    /\ [][(pc = "client" /\ pc' # "client")
          => IF _client = None
             THEN /\ drew'
                  /\ client' \notin DOMAIN clients
                  /\ _client' = client'
                  /\ clients'[client'].ua \in USER_AGENTS
             ELSE /\ ~drew'
                  /\ client' = _client
                  /\ _client' = _client
                  /\ clients' = clients]_vars
    /\ [][InRetryLoop => (client' = client \/ ~InRetryLoop')]_vars

\* a fetch call that found a client and drew nothing sends its second attempt
\* with the client of its first
C8_Witness ==
    /\ pc = "inflight"
    /\ ~drew
    /\ Len(sent) = 2
    /\ sent[1].status = "500"
    /\ sent[1].client = sent[2].client

\* the positions of the candidates of extracted that match the search
MatchingPositions(extracted, brand, model) ==
    { k \in 1..Len(extracted) : matches_search(extracted[k], brand, model) }

\* C9: search_cars returns at most max_results listings, each of which
\* matches the search, and they are the first matching candidates of the
\* page, in the order of the page: the n-th listing returned is the n-th
\* matching candidate, and a matching candidate is left out only when
\* max_results listings precede it.
C9_CappedMatchingPrefix ==
    (s_out.used /\ ~s_out.raised) =>
        LET M == MatchingPositions(s_out.extracted, s_in.brand, s_in.model)
            n == Len(s_out.listings)
        IN  /\ n <= s_in.max_results
            /\ n = Min(Cardinality(M), s_in.max_results)
            /\ \A k \in 1..n : matches_search(s_out.listings[k], s_in.brand, s_in.model)
            /\ \A k \in 1..n :
                  \E p \in M : /\ Cardinality({q \in M : q < p}) = k - 1
                               /\ s_out.listings[k] = s_out.extracted[p]

\* a page of two candidates that match, of which the cap of 1 keeps the first,
\* and which differ
C9_Witness ==
    /\ s_out.used
    /\ ~s_out.raised
    /\ s_in.max_results = 1
    /\ Len(s_out.extracted) = 2
    /\ Cardinality(MatchingPositions(s_out.extracted, s_in.brand, s_in.model)) = 2
    /\ s_out.extracted[1] # s_out.extracted[2]
    /\ Len(s_out.listings) = 1

\* the models of the configuration that have a brand, among the first n
SearchedModels(n) ==
    { m \in 1..Min(n, Len(ModelConfigs)) : ModelConfigs[m].brand # <<>> }

RECURSIVE ReturnedBy(_)
\* the listings the searches of log returned, in order
ReturnedBy(log) ==
    IF log = <<>> THEN <<>> ELSE Head(log).returned \o ReturnedBy(Tail(log))

\* C10: a search whose fetch failed returned an empty list without running
\* extraction, and did not raise; whatever the searches before it did (failed,
\* raised, returned listings), every configured model with a brand is searched
\* in its turn, and all_listings holds what the searches returned.
C10_FailureIsEmptyAndCycleGoesOn ==
    /\ \A k \in 1..Len(searchLog) :
          /\ searchLog[k].outcome = "failed"
             => (~searchLog[k].extracted /\ searchLog[k].returned = <<>>)
          /\ searchLog[k].outcome = "raised" => searchLog[k].returned = <<>>
    /\ fetchResult = "failure"
       => (pc = "models" /\ searchLog # <<>>
           /\ searchLog[Len(searchLog)].outcome = "failed")
    /\ (pc = "models" /\ i >= 1)
       => { searchLog[k].idx : k \in 1..Len(searchLog) } = SearchedModels(i - 1)
    /\ all_listings = ReturnedBy(searchLog)

\* the cycle is over: the first search failed, the second returned a listing
C10_Witness ==
    /\ pc = "models"
    /\ i > Len(ModelConfigs)
    /\ Len(searchLog) = 2
    /\ searchLog[1].outcome = "failed"
    /\ searchLog[2].outcome = "ok"
    /\ searchLog[2].returned # <<>>

\* the items of ads that are objects carrying a listing id that is neither
\* null nor empty
IdentifiedAds(ads) ==
    { k \in 1..Len(ads) :
        /\ ads[k] # ScalarAd
        /\ ads[k].list_id \notin {NoKey, Null, <<>>} }

\* C11: the markup fallback has run if and only if the structured-data
\* strategy yielded no candidate (container absent, not JSON, no ad record,
\* every record dropped); with at least one structured candidate extraction
\* returns exactly the structured candidates, otherwise exactly what the
\* markup yields, which is the empty list when the markup has no card either.
C11_FallbackIffNoStructuredCandidate ==
    (s_out.used /\ ~s_out.raised) =>
        LET body == s_in.body
            fromJson == IF body.json = "ok"
                        THEN ParseAds(body.ads, s_in.brand, s_in.model) ELSE <<>>
            fromMarkup == ParseCards(body.cards, s_in.brand, s_in.model)
        IN  /\ s_out.fallback <=> (fromJson = <<>>)
            /\ body.json \in {"absent", "malformed"} => s_out.fallback
            /\ (body.json = "ok" /\ body.ads = <<>>) => s_out.fallback
            /\ (body.json = "ok"
                /\ \A k \in 1..Len(body.ads) :
                      _parse_ad_json(body.ads[k], s_in.brand, s_in.model) = <<>>)
               => s_out.fallback
            /\ fromJson # <<>> => s_out.extracted = fromJson
            /\ fromJson = <<>> => s_out.extracted = fromMarkup
            /\ (fromJson = <<>> /\ body.cards = <<>>) => s_out.extracted = <<>>

\* every ad record of the JSON is dropped and the listing comes from the markup
C11_Witness ==
    /\ s_out.used
    /\ ~s_out.raised
    /\ s_in.body.json = "ok"
    /\ Len(s_in.body.ads) = 2
    /\ s_out.fallback
    /\ Len(s_out.extracted) = 1

\* C12: extraction raises for no response body; a page whose JSON parses but
\* has an unexpected shape yields no structured candidate and is extracted
\* from the markup.
C12_UnexpectedShapeFallsBack ==
    s_out.used =>
        /\ ~s_out.raised
        /\ s_in.body.json \in {"nullpath", "adsscalar", "adsobject"}
           => (/\ s_out.fallback
               /\ s_out.extracted
                  = ParseCards(s_in.body.cards, s_in.brand, s_in.model))

\* C13: no candidate has an empty listing id, and the structured candidates
\* are those of the ad records that carry a listing id (missing, null and
\* empty ids are dropped, the other records are kept).
C13_NoCandidateWithoutId ==
    (s_out.used /\ ~s_out.raised) =>
        /\ \A k \in 1..Len(s_out.extracted) : s_out.extracted[k].listing_id # <<>>
        /\ s_in.body.json = "ok"
           => Len(s_out.structured) = Cardinality(IdentifiedAds(s_in.body.ads))
        /\ s_out.fallback
           => Len(s_out.extracted)
              = Cardinality({ k \in 1..Len(s_in.body.cards) :
                              s_in.body.cards[k].href_id # <<>> })

\* C15: a search for brand "mazda", model "2" returns no listing titled
\* "Peugeot 2008", whichever strategy extracted it.
C15_ReturnedListingsCorrespond ==
    (s_out.used /\ ~s_out.raised /\ s_in.brand = Txt_mazda /\ s_in.model = <<"2">>)
    => \A k \in 1..Len(s_out.listings) :
          s_out.listings[k].title # Title_Peugeot_2008

\* C14: for a requested model that is a numeric token of at most two digits
\* and a listing whose model field does not contain it, matches_search is
\* true exactly when the brand is found in the listing's brand or title and
\* the lower-cased title contains "{brand} {model}", "{brand}{model} ",
\* "{brand}{model}," or " {model} ", or ends with " {model}" or
\* "{brand}{model}"; so mazda/2 rejects "Peugeot 2008" and "Peugeot 206" and
\* accepts "Mazda 2" and "Mazda2".
C14_StrictNumericModel ==
    (/\ m_out.used
     /\ IsDigit(Lower(m_in.model))
     /\ Len(m_in.model) <= 2
     /\ ~Contains(Lower(m_in.listing.model), Lower(m_in.model)))
    => LET t == Lower(m_in.listing.title)
           b == Lower(m_in.brand)
           n == Lower(m_in.model)
           sp == <<" ">>
           brandOk == Contains(Lower(m_in.listing.brand), b) \/ Contains(t, b)
           titleOk == \/ Contains(t, b \o sp \o n)
                      \/ Contains(t, b \o n \o sp)
                      \/ Contains(t, b \o n \o <<",">>)
                      \/ Contains(t, sp \o n \o sp)
                      \/ EndsWith(t, sp \o n)
                      \/ EndsWith(t, b \o n)
       IN  /\ m_out.matched <=> (brandOk /\ titleOk)
           /\ (m_in.brand = Txt_mazda /\ m_in.model = <<"2">>)
              => /\ m_in.listing.title \in {Title_Peugeot_2008, Title_Peugeot_206}
                    => ~m_out.matched
                 /\ m_in.listing.title \in {Title_Mazda_2, Title_Mazda2}
                    => m_out.matched

\* "Mazda2", carrying neither brand nor model, matches mazda/2
C14_Witness ==
    /\ m_out.used
    /\ m_out.matched
    /\ m_in.brand = Txt_mazda
    /\ m_in.model = <<"2">>
    /\ m_in.listing.title = Title_Mazda2
    /\ m_in.listing.brand = <<>>
    /\ m_in.listing.model = <<>>

\* the checks of evaluate in the order of the claim, and how the reason of
\* each begins
StageOrder ==
    << "blacklist", "engines", "transmissions", "guard", "price", "mileage",
       "year", "gearbox", "scoring" >>
ReasonStarts ==
    << <<"M", "o", "t", "-", "c", "l", "é", " ", "b", "l", "a", "c", "k", "l", "i", "s", "t", ":", " ">>, <<"M", "o", "t", "e", "u", "r", " ", "e", "x", "c", "l", "u", ":", " ">>, <<"T", "r", "a", "n", "s", "m", "i", "s", "s", "i", "o", "n", " ", "e", "x", "c", "l", "u", "e", ":", " ">>,
       <<"S", "e", "a", "t", " ", "I", "b", "i", "z", "a", " ", "a", "v", "e", "c", " ", "m", "o", "t", "e", "u", "r", " ", "T", "S", "I", "/", "T", "D", "I", " ", "e", "x", "c", "l", "u">>, <<"P", "r", "i", "x", " ">>, <<"K", "m", " ">>, <<"A", "n", "n", "é", "e", " ">>,
       <<"B", "o", "î", "t", "e", " ", "a", "u", "t", "o", "m", "a", "t", "i", "q", "u", "e", " ", "e", "x", "c", "l", "u", "e">> >>
StageRank(stage) == CHOOSE k \in 1..Len(StageOrder) : StageOrder[k] = stage
StartsWith(text, start) ==
    Len(start) <= Len(text) /\ SubSeq(text, 1, Len(start)) = start

\* which of the eight exclusion causes apply to a listing, stated on the
\* listing alone
CausesOf(l) ==
    LET full == _normalize_text(Spaced(l.title, l.description))
        text == Lower(Spaced(Spaced(l.title, l.description), l.engine))
        rules == BrandRules(car_filter, Lower(l.brand))
    IN  << \E c \in 1..Len(BlacklistKeywords) :
              \E k \in 1..Len(BlacklistKeywords[c].keywords) :
                 Contains(full, _normalize_text(BlacklistKeywords[c].keywords[k])),
           \E r \in 1..Len(rules) : \E k \in 1..Len(rules[r].engines) :
              Contains(text, Lower(rules[r].engines[k])),
           \E r \in 1..Len(rules) : \E k \in 1..Len(rules[r].transmissions) :
              Contains(text, Lower(rules[r].transmissions[k])),
           /\ Lower(l.brand) = <<"s", "e", "a", "t">>
           /\ rules # <<>>
           /\ TsiTdiPattern(text)
           /\ \A r \in 1..Len(rules) : \A k \in 1..Len(rules[r].accepted_engines) :
                 ~Contains(text, Lower(rules[r].accepted_engines[k])),
           l.price > max_price,
           l.mileage > max_km,
           l.year # 0 /\ l.year < min_year,
           Contains(Lower(l.gearbox), <<"a", "u", "t", "o", "m", "a", "t", "i", "q", "u", "e">>) >>

\* C16: evaluate goes through its checks strictly forward in the order
\* blacklist, excluded engine, excluded transmission, brand guard, price,
\* mileage, year, gearbox, scoring; the first cause of this order that applies
\* is the one that excludes and the one the reason reports, the excluding
\* check is the last one that runs, and scoring runs exactly when no cause
\* applies.
C16_StagesForwardFirstCauseReported ==
    e_out.used =>
        LET stages == e_out.stages
            result == e_out.result
            first == FirstTrue(CausesOf(e_in.listing))
        IN  /\ stages # <<>> /\ stages[1] = "blacklist"
            /\ \A k \in 1..(Len(stages) - 1) :
                  StageRank(stages[k]) < StageRank(stages[k + 1])
            /\ result.excluded <=> first # 0
            /\ first # 0 =>
                  /\ stages[Len(stages)] = StageOrder[first]
                  /\ StartsWith(result.exclusion_reason, ReasonStarts[first])
            /\ (\E k \in 1..Len(stages) : stages[k] = "scoring") <=> first = 0
            /\ first = 0 => stages[Len(stages)] = "scoring"

\* a listing that matches both the blacklist and an excluded engine of its
\* brand is reported with the blacklist reason, after the blacklist check only
C16_Witness ==
    /\ e_out.used
    /\ CausesOf(e_in.listing)[1]
    /\ CausesOf(e_in.listing)[2]
    /\ e_out.stages = << "blacklist" >>
    /\ StartsWith(e_out.result.exclusion_reason, ReasonStarts[1])

\* C17: a result evaluate returns excluded carries no score: total_score 0,
\* priority "low", no bonus, no penalty, and it has a non-empty exclusion
\* reason; a result that is not excluded has no exclusion reason.
C17_ExcludedResultNotScored ==
    e_out.used =>
        LET result == e_out.result
        IN  /\ result.excluded =>
                  /\ result.total_score = 0
                  /\ result.priority = "low"
                  /\ result.bonuses = <<>>
                  /\ result.penalties = <<>>
                  /\ result.exclusion_reason # Null
                  /\ result.exclusion_reason # <<>>
            /\ ~result.excluded => result.exclusion_reason = Null

\* an excluded listing that has bonus points and a penalty to its name
C17_Witness ==
    /\ e_out.used
    /\ e_out.result.excluded
    /\ LET l == e_in.listing
       IN  /\ _calculate_bonus_points(car_filter, l.brand, l.model, l.title, l.description,
                                      l.price, l.mileage).points > 0
           /\ _calculate_penalty_points(car_filter, l.brand, l.title, l.description,
                                        l.fuel).points < 0

C19_ThresholdChangeNotRetroactive ==
    [][ /\ (reply' # reply \/ car_filter' # car_filter) =>
              /\ results' = results
              /\ car_filter'.medium_threshold = car_filter.medium_threshold
        /\ (reply' # reply /\ reply'.outcome = "updated") =>
              car_filter'.high_threshold = ParseInt(reply'.args[1]).value
        /\ results' # results =>
              /\ Len(results') = Len(results) + 1
              /\ SubSeq(results', 1, Len(results)) = results
              /\ car_filter' = car_filter
              /\ LET new == results'[Len(results')].result
                 IN  ~new.excluded =>
                        new.priority = Priority(new.total_score,
                                                car_filter.high_threshold,
                                                car_filter.medium_threshold)
      ]_vars

\* the same listing evaluated before and after an accepted command: the two
\* results differ in priority, and the earlier one is still there
C19_Witness ==
    /\ Len(results) = 2
    /\ reply.outcome = "updated"
    /\ results[1].listing = results[2].listing
    /\ results[1].result.priority = "medium"
    /\ results[2].result.priority = "high"

\* C20: a /sethighscore request whose value is not an integer, is negative or
\* is above 100 is answered "invalid" and leaves the engine's high threshold
\* and the persisted value as they were; the engine's high threshold and the
\* persisted value are in 0..100 at all times, after a command and after a
\* restore at startup alike.
C20_InvalidThresholdRejected ==
    /\ [](/\ car_filter.high_threshold \in 0..100
          /\ db_config # NoConfig =>
                /\ ParseInt(db_config).ok
                /\ ParseInt(db_config).value \in 0..100)
    /\ [][ /\ (/\ reply' # reply
               /\ reply'.args # <<>>
               /\ LET new_threshold == ParseInt(reply'.args[1])
                  IN  \/ ~new_threshold.ok
                      \/ new_threshold.value < 0
                      \/ new_threshold.value > 100) =>
                 /\ reply'.outcome = "invalid"
                 /\ car_filter' = car_filter
                 /\ db_config' = db_config
           /\ startup' # startup =>
                 /\ car_filter'.high_threshold \in 0..100
                 /\ db_config' = db_config
         ]_vars

\* 101 is asked for after 12 was accepted: 12 stays, in the engine and stored
C20_Witness ==
    /\ reply.outcome = "invalid"
    /\ reply.args = << <<"1", "0", "1">> >>
    /\ db_config = <<"1", "2">>
    /\ car_filter.high_threshold = 12

\* whether evaluate gets past the blacklist and the brand rules on a listing
PassesRules(l) ==
    LET stages == EvaluateRun(car_filter, l).stages
    IN  \E k \in 1..Len(stages) : stages[k] = "price"

\* C21: a listing that passes the blacklist and the brand rules is excluded
\* exactly when its price is above max_price, its mileage above max_km, its
\* year below min_year or its gearbox text contains "automatique"; a value
\* equal to its limit and a missing value do not exclude; the reason of a
\* price exclusion has the price and the maximum in it.
C21_GeneralCriteriaLimits ==
    (e_out.used /\ PassesRules(e_in.listing)) =>
        LET l == e_in.listing
            result == e_out.result
        IN  /\ result.excluded <=>
                  \/ l.price > max_price
                  \/ l.mileage > max_km
                  \/ l.year # 0 /\ l.year < min_year
                  \/ Contains(Lower(l.gearbox), <<"a", "u", "t", "o", "m", "a", "t", "i", "q", "u", "e">>)
            /\ l.price > max_price =>
                  /\ Contains(result.exclusion_reason, IntText(l.price))
                  /\ Contains(result.exclusion_reason, IntText(max_price))

\* price, mileage and year all exactly at their limits: not excluded
C21_Witness ==
    /\ e_out.used
    /\ PassesRules(e_in.listing)
    /\ e_in.listing.price = max_price
    /\ e_in.listing.mileage = max_km
    /\ e_in.listing.year = min_year
    /\ ~e_out.result.excluded

\* a listing that is diesel by its fuel field or by its text, and the same
\* listing with the diesel taken out of both
IsDiesel(l) ==
    \/ Contains(Lower(l.fuel), <<"d", "i", "e", "s", "e", "l">>)
    \/ Contains(Lower(Spaced(l.title, l.description)), <<"d", "i", "e", "s", "e", "l">>)
WithoutDiesel(l) ==
    [l EXCEPT !.fuel = <<>>,
              !.description = IF l.description = <<"D", "i", "e", "s", "e", "l", ",", " ", "e", "n", "t", "r", "e", "t", "i", "e", "n", " ", "s", "u", "i", "v", "i">>
                              THEN <<"E", "n", "t", "r", "e", "t", "i", "e", "n", " ", "s", "u", "i", "v", "i">> ELSE l.description]

\* C22: a diesel listing is excluded only when the same listing without
\* diesel is excluded too, for the same reason; when it is not excluded its
\* penalties have the "-5 Diesel" explanation and its total_score is that of
\* the same listing without diesel, minus 5.
C22_DieselPenalisedNotExcluded ==
    (e_out.used /\ IsDiesel(e_in.listing)) =>
        LET result == e_out.result
            plain == evaluate(car_filter, WithoutDiesel(e_in.listing))
        IN  /\ ~IsDiesel(WithoutDiesel(e_in.listing))
            /\ result.excluded <=> plain.excluded
            /\ result.exclusion_reason = plain.exclusion_reason
            /\ ~result.excluded =>
                  /\ \E k \in 1..Len(result.penalties) :
                        result.penalties[k] = <<"-", "5", " ", "D", "i", "e", "s", "e", "l">>
                  /\ result.total_score = plain.total_score - 5

\* a diesel listing with bonuses, not excluded
C22_Witness ==
    /\ e_out.used
    /\ IsDiesel(e_in.listing)
    /\ ~e_out.result.excluded
    /\ e_out.result.bonuses # <<>>
    /\ e_out.result.total_score < 0 + _calculate_bonus_points(car_filter,
          e_in.listing.brand, e_in.listing.model, e_in.listing.title,
          e_in.listing.description, e_in.listing.price,
          e_in.listing.mileage).points

\* the three maintenance explanations, and the maintenance keywords of the
\* filter that the text of a listing matches
MaintenanceLabels ==
    [chain |-> <<"+", "3", " ", "M", "o", "t", "e", "u", "r", " ", "c", "h", "a", "î", "n", "e">>, distribution |-> <<"+", "3", " ", "D", "i", "s", "t", "r", "i", "b", "u", "t", "i", "o", "n", " ", "m", "e", "n", "t", "i", "o", "n", "n", "é", "e">>,
     history |-> <<"+", "3", " ", "E", "n", "t", "r", "e", "t", "i", "e", "n", " ", "s", "u", "i", "v", "i">>]
MatchedMaintenance(l) ==
    LET text == _normalize_text(Spaced(l.title, l.description))
        keywords == car_filter.exclusions.positive_keywords.maintenance
    IN  { k \in 1..Len(keywords) : Contains(text, _normalize_text(keywords[k])) }
IsChainKeyword(kw) ==
    Contains(Lower(kw), <<"c", "h", "a", "î", "n", "e">>) \/ Contains(Lower(kw), <<"c", "h", "a", "i", "n", "e">>)
IsDistributionKeyword(kw) == Contains(Lower(kw), <<"d", "i", "s", "t", "r", "i", "b", "u", "t", "i", "o", "n">>)
MaintenanceAwarded(result) ==
    { k \in 1..Len(result.bonuses) :
         result.bonuses[k] \in { MaintenanceLabels.chain,
                                 MaintenanceLabels.distribution,
                                 MaintenanceLabels.history } }

\* C23 as stated: at most one maintenance bonus, and it is the chain one when
\* a chain keyword matches, else the distribution one when a distribution
\* keyword matches, else the generic one.
C23_MaintenanceByCategoryPrecedence ==
    (e_out.used /\ ~e_out.result.excluded) =>
        LET result == e_out.result
            keywords == car_filter.exclusions.positive_keywords.maintenance
            matched == MatchedMaintenance(e_in.listing)
            awarded == MaintenanceAwarded(result)
        IN  /\ Cardinality(awarded) <= 1
            /\ awarded # {} <=> matched # {}
            /\ \A a \in awarded :
                  result.bonuses[a] =
                     IF \E k \in matched : IsChainKeyword(keywords[k])
                     THEN MaintenanceLabels.chain
                     ELSE IF \E k \in matched : IsDistributionKeyword(keywords[k])
                     THEN MaintenanceLabels.distribution
                     ELSE MaintenanceLabels.history

\* C23, amended: at most one maintenance bonus, and it is that of the first
\* keyword, in the order of the configuration, that matches: the distribution
\* one when that keyword contains "distribution", else the chain one when it
\* contains "chaîne" or "chaine", else the generic one.
C23_MaintenanceByFirstKeyword ==
    (e_out.used /\ ~e_out.result.excluded) =>
        LET result == e_out.result
            keywords == car_filter.exclusions.positive_keywords.maintenance
            matched == MatchedMaintenance(e_in.listing)
            awarded == MaintenanceAwarded(result)
        IN  /\ Cardinality(awarded) <= 1
            /\ awarded # {} <=> matched # {}
            /\ \A a \in awarded :
                  LET first == CHOOSE k \in matched : \A j \in matched : k <= j
                  IN  result.bonuses[a] =
                         IF IsDistributionKeyword(keywords[first])
                         THEN MaintenanceLabels.distribution
                         ELSE IF IsChainKeyword(keywords[first])
                         THEN MaintenanceLabels.chain
                         ELSE MaintenanceLabels.history

\* a distribution keyword and a chain keyword both match; one bonus is given
C23_Witness ==
    /\ e_out.used
    /\ ~e_out.result.excluded
    /\ Cardinality(MatchedMaintenance(e_in.listing)) >= 2
    /\ Cardinality(MaintenanceAwarded(e_out.result)) = 1

C25_ExcludedResultHasNoWarning ==
    (e_out.used /\ e_out.result.excluded) => e_out.result.warnings = <<>>

\* the listing ids whose evaluation is an exclusion
ExcludedIds == { id \in BotIds : evaluate(car_filter, BotListing(id)).excluded }

\* C26: the stream delivered to the notification sink is deduplicated:
\* across the searches of one cycle, repeated cycles and the cleanup of the
\* listings older than 30 days, a listing id is delivered at most once.
C26_DeliveredAtMostOnce ==
    \A id \in BotIds : sink_log[id].delivered <= 1

\* the listing has been handed to send_notification or marked notified
SentOrNotified(id) ==
    \/ sink_log[id].delivered > 0
    \/ sink_log[id].failed
    \/ table[id].stored /\ table[id].notified
    \/ \E t \in TaskIds : tasks[t].pc = "sending" /\ tasks[t].current = id

\* C27: an excluded listing is never delivered to the sink, never handed to
\* send_notification and never marked notified; a stored listing is marked
\* notified only after a delivery of that listing has succeeded.
C27_ExcludedNeverNotified ==
    /\ \A id \in BotIds : SentOrNotified(id) => id \notin ExcludedIds
    /\ \A id \in BotIds :
          table[id].stored /\ table[id].notified => sink_log[id].delivered > 0

\* an excluded listing is stored, and another listing has been delivered and
\* marked notified
C27_Witness ==
    /\ \E id \in ExcludedIds : table[id].stored /\ table[id].excluded
    /\ \E id \in BotIds \ ExcludedIds :
          table[id].stored /\ table[id].notified /\ sink_log[id].delivered > 0

\* the step is the start of a search cycle by task t
StartsCycle(t) ==
    tasks[t].pc = "check" /\ tasks'[t].pc = "searching"

\* C28: a search cycle starts only while the monitoring is enabled, and the
\* monitoring is enabled only by a /start command (or restored by run at
\* startup): after /stop no cycle and no search of a new cycle starts before
\* the next /start, while a cycle that is running may finish.
C28_CycleStartsOnlyWhileMonitoring ==
    [][ /\ \A t \in TaskIds : StartsCycle(t) => is_monitoring
        /\ \A t \in TaskIds :
              tasks'[t].pc = "searching" /\ tasks[t].pc # "searching"
                 => StartsCycle(t)
        /\ ~is_monitoring /\ is_monitoring'
              => CmdStart \/ \E restored \in BOOLEAN : RunStart(restored) ]_vars

\* /stop has been processed while a cycle was running: the cycle goes on and
\* hands a listing it found to send_notification
C28_Witness ==
    /\ run_pc = "waiting"
    /\ ~is_monitoring
    /\ \E t \in TaskIds : tasks[t].alive /\ tasks[t].pc = "sending"

\* the monitoring loop tasks that are alive
AliveTasks == { t \in TaskIds : tasks[t].alive }

\* C29: under any interleaving of /start, /stop, the startup and the running
\* cycles, at most one monitoring loop task is alive, hence at most one
\* search cycle runs at a time.
C29_AtMostOneLoopTask ==
    /\ Cardinality(AliveTasks) <= 1
    /\ Cardinality({ t \in TaskIds : tasks[t].pc = "searching" }) <= 1

\* C30: a non-excluded listing whose delivery has failed stays eligible:
\* when a later cycle returns it again, it is handed to send_notification
\* again.
C30_FailedDeliveryStaysEligible ==
    [][ \A t \in TaskIds :
          ( /\ tasks[t].pc = "processing"
            /\ tasks[t].todo # <<>>
            /\ tasks'[t] # tasks[t]
            /\ sink_log[Head(tasks[t].todo)].failed
            /\ sink_log[Head(tasks[t].todo)].delivered = 0
            /\ Head(tasks[t].todo) \notin ExcludedIds )
          => /\ tasks'[t].pc = "sending"
             /\ tasks'[t].current = Head(tasks[t].todo) ]_vars

=============================================================================
